---- MODULE Spec2Model ----
(***************************************************************************)
(* Model of the Boost.ASIO HTTP client of this repository                  *)
(* (src/http_client_asio.cpp, src/http_common.hpp).                        *)
(*                                                                         *)
(* Byte strings (URLs, requests, responses) are sequences of one-character *)
(* strings, so that parsing and serialisation are computed character by    *)
(* character as the code does.                                             *)
(***************************************************************************)
EXTENDS Integers, Sequences, FiniteSets, TLC

(***************************************************************************)
(* Characters                                                              *)
(***************************************************************************)

\* The characters the model uses, in ascending ASCII order (std::string
\* comparison and std::map<std::string, ...> iteration use this order).
AsciiOrder ==
    << "\t", "\n", "\r", " ", "+", "-", ".", "/",
       "0", "1", "2", "3", "4", "5", "6", "7", "8", "9", ":", "?",
       "A", "B", "C", "D", "E", "F", "G", "H", "I", "J", "K", "L", "M",
       "N", "O", "P", "Q", "R", "S", "T", "U", "V", "W", "X", "Y", "Z",
       "a", "b", "c", "d", "e", "f", "g", "h", "i", "j", "k", "l", "m",
       "n", "o", "p", "q", "r", "s", "t", "u", "v", "w", "x", "y", "z" >>

Ord(c) == CHOOSE i \in 1..Len(AsciiOrder) : AsciiOrder[i] = c

Digits == << "0", "1", "2", "3", "4", "5", "6", "7", "8", "9" >>

IsDigit(c) == \E i \in 1..10 : Digits[i] = c

DigitVal(c) == (CHOOSE i \in 1..10 : Digits[i] = c) - 1

IsUpper(c) == Ord("A") <= Ord(c) /\ Ord(c) <= Ord("Z")

\* tolower as it would be if it left the letters as they are
tolower_none(c) == c

\* ::tolower on one character
tolower(c) == IF IsUpper(c) THEN AsciiOrder[Ord(c) + 26] ELSE c

\* std::transform(s.begin(), s.end(), s.begin(), ::tolower)
ToLowerStr(s) == [i \in 1..Len(s) |-> tolower(s[i])]

\* std::isspace in the "C" locale (the whitespace operator>> skips)
IsSpace(c) == c \in {" ", "\t", "\n", "\r"}

\* operator< of std::string
RECURSIVE StrLess(_, _)
StrLess(a, b) ==
    IF b = <<>> THEN FALSE
    ELSE IF a = <<>> THEN TRUE
    ELSE IF a[1] # b[1] THEN Ord(a[1]) < Ord(b[1])
    ELSE StrLess(Tail(a), Tail(b))

\* s.substr(pos) for a 0-based pos <= s.size()
SubstrFrom(s, pos) == SubSeq(s, pos + 1, Len(s))

\* s.substr(pos, n) for a 0-based pos
Substr(s, pos, n) == SubSeq(s, pos + 1, pos + n)

\* s.find(pat): the 0-based position of the first occurrence, or -1 (npos)
Find(s, pat) ==
    LET hits == { i \in 0..(Len(s) - Len(pat)) : Substr(s, i, Len(pat)) = pat }
    IN  IF hits = {} THEN -1
        ELSE CHOOSE i \in hits : \A j \in hits : i <= j

\* std::to_string / operator<< of a non-negative integer
RECURSIVE IntToStr(_)
IntToStr(n) ==
    IF n < 10 THEN << Digits[n + 1] >>
    ELSE IntToStr(n \div 10) \o << Digits[(n % 10) + 1] >>

CRLF == << "\r", "\n" >>

Delimiter == << "\r", "\n", "\r", "\n" >>

(***************************************************************************)
(* http_common.hpp                                                         *)
(***************************************************************************)

\* enum class Method
Method == { "GET", "POST", "PUT", "DELETE", "PATCH", "HEAD" }

method_to_string(method) ==
    CASE method = "GET"    -> << "G", "E", "T" >>
      [] method = "POST"   -> << "P", "O", "S", "T" >>
      [] method = "PUT"    -> << "P", "U", "T" >>
      [] method = "DELETE" -> << "D", "E", "L", "E", "T", "E" >>
      [] method = "PATCH"  -> << "P", "A", "T", "C", "H" >>
      [] method = "HEAD"   -> << "H", "E", "A", "D" >>
      [] OTHER             -> << "U", "N", "K", "N", "O", "W", "N" >>

\* Headers = std::map<std::string, std::string>: a function from keys to
\* values; iteration visits the keys in ascending std::string order.
RECURSIVE SortedKeys(_)
SortedKeys(keys) ==
    IF keys = {} THEN <<>>
    ELSE LET k == CHOOSE x \in keys : \A y \in keys \ {x} : StrLess(x, y)
         IN  << k >> \o SortedKeys(keys \ {k})

NoHeaders == [k \in {} |-> <<>>]

\* headers[name] = value
SetHeader(headers, name, value) ==
    [k \in DOMAIN headers \cup {name} |->
        IF k = name THEN value ELSE headers[k]]

Nullopt == [has_value |-> FALSE, value |-> <<>>]

\* get_header as it would be if the keys were compared as stored
get_header_exact(response, name) ==
    IF name \in DOMAIN response.headers
    THEN [has_value |-> TRUE, value |-> response.headers[name]]
    ELSE Nullopt

\* Response::get_header: the value of the first key, in map order, that
\* equals name when both are lower-cased; std::nullopt otherwise.
get_header(response, name) ==
    LET lower_name == ToLowerStr(name)
        keys == SortedKeys(DOMAIN response.headers)
        hits == { i \in 1..Len(keys) : ToLowerStr(keys[i]) = lower_name }
    IN  IF hits = {} THEN Nullopt
        ELSE LET i == CHOOSE x \in hits : \A y \in hits : x <= y
             IN  [has_value |-> TRUE, value |-> response.headers[keys[i]]]

\* is_success as it would be if 300 were included
is_success_inclusive(response) ==
    response.status_code >= 200 /\ response.status_code <= 300

is_success(response) ==
    response.status_code >= 200 /\ response.status_code < 300

is_client_error(response) ==
    response.status_code >= 400 /\ response.status_code < 500

\* is_server_error as it would be with no upper limit
is_server_error_open(response) == response.status_code >= 500

is_server_error(response) ==
    response.status_code >= 500 /\ response.status_code < 600

(***************************************************************************)
(* AsioHttpClient: URL parsing, request building, response parsing         *)
(***************************************************************************)

\* The longest prefix of s made of characters satisfying the class
\* ([^:/]+ and \d+ are greedy, and what follows them cannot match a
\* character of the class, so the regex can only match with the longest).
RECURSIVE SpanNotIn(_, _)
SpanNotIn(s, stop) ==
    IF s = <<>> \/ s[1] \in stop THEN 0 ELSE 1 + SpanNotIn(Tail(s), stop)

RECURSIVE SpanDigits(_)
SpanDigits(s) ==
    IF s = <<>> \/ ~IsDigit(s[1]) THEN 0 ELSE 1 + SpanDigits(Tail(s))

\* InvalidUrl as it would be if parse_url returned instead of throwing
InvalidUrl_returned ==
    [ok |-> TRUE, protocol |-> <<>>, host |-> <<>>, port |-> <<>>,
     path |-> <<>>, is_https |-> FALSE]

\* The outcome of parse_url when regex_match fails: a UrlException
InvalidUrl ==
    [ok |-> FALSE, protocol |-> <<>>, host |-> <<>>, port |-> <<>>,
     path |-> <<>>, is_https |-> FALSE]

\* parse_url: std::regex_match of ^(https?)://([^:/]+)(?::(\d+))?(/.*)?$
\* (icase), then the defaults.  ok = FALSE stands for the UrlException.
parse_url(url) ==
    LET lower == ToLowerStr(url)
        has_s == Len(url) >= 5 /\ lower[5] = "s"
        scheme_len == IF has_s THEN 5 ELSE 4
        scheme_ok ==
            /\ Len(url) >= scheme_len + 3
            /\ SubSeq(lower, 1, 4) = << "h", "t", "t", "p" >>
            /\ Substr(url, scheme_len, 3) = << ":", "/", "/" >>
        after_scheme == SubstrFrom(url, scheme_len + 3)
        host_len == SpanNotIn(after_scheme, {":", "/"})
        after_host == SubstrFrom(after_scheme, host_len)
        has_port == after_host # <<>> /\ after_host[1] = ":"
        port_len == IF has_port THEN SpanDigits(Tail(after_host)) ELSE 0
        after_port ==
            IF has_port THEN SubstrFrom(after_host, 1 + port_len)
            ELSE after_host
        \* (/.*)?$ : nothing, or a slash followed by characters other than
        \* line terminators up to the end
        path_ok ==
            \/ after_port = <<>>
            \/ /\ after_port[1] = "/"
               /\ \A i \in 2..Len(after_port) : after_port[i] \notin {"\n", "\r"}
        matched ==
            /\ scheme_ok
            /\ host_len >= 1
            /\ has_port => port_len >= 1
            /\ path_ok
        protocol == SubSeq(lower, 1, scheme_len)
        is_https == protocol = << "h", "t", "t", "p", "s" >>
        port == Substr(after_host, 1, port_len)
    IN  IF ~matched THEN InvalidUrl
        ELSE [ok |-> TRUE,
              protocol |-> protocol,
              host |-> Substr(after_scheme, 0, host_len),
              port |-> IF port = <<>>
                       THEN (IF is_https THEN << "4", "4", "3" >>
                             ELSE << "8", "0" >>)
                       ELSE port,
              path |-> IF after_port = <<>> THEN << "/" >> ELSE after_port,
              is_https |-> is_https]

\* The header lines, one "key: value\r\n" per entry of the map
RECURSIVE HeaderLines(_, _)
HeaderLines(headers, keys) ==
    IF keys = <<>> THEN <<>>
    ELSE keys[1] \o << ":", " " >> \o headers[keys[1]] \o CRLF
         \o HeaderLines(headers, Tail(keys))

\* request << method_to_string(method) << " " << url.path << " HTTP/1.1\r\n"
RequestLine(method, url) ==
    method_to_string(method) \o << " " >> \o url.path
    \o << " ", "H", "T", "T", "P", "/", "1", ".", "1" >> \o CRLF

\* The Host header: the port follows the host unless url.port is the string
\* "443" under https or the string "80" under http
HostHeader(url) ==
    << "H", "o", "s", "t", ":", " " >> \o url.host
    \o (IF \/ (url.is_https /\ url.port # << "4", "4", "3" >>)
           \/ (~url.is_https /\ url.port # << "8", "0" >>)
        THEN << ":" >> \o url.port ELSE <<>>)
    \o CRLF

\* NeedsContentLength as it would be if the method were not looked at
NeedsContentLength_anymethod(method, body) == body # <<>>

\* if (!body.empty() && (method == POST || PUT || PATCH || DELETE))
NeedsContentLength(method, body) ==
    body # <<>> /\ method \in {"POST", "PUT", "PATCH", "DELETE"}

\* request << "Content-Length: " << body.length() << "\r\n"
ContentLengthHeader(method, body) ==
    IF NeedsContentLength(method, body)
    THEN << "C", "o", "n", "t", "e", "n", "t", "-",
            "L", "e", "n", "g", "t", "h", ":", " " >>
         \o IntToStr(Len(body)) \o CRLF
    ELSE <<>>

\* request << "Connection: close\r\n"
ConnectionHeader ==
    << "C", "o", "n", "n", "e", "c", "t", "i", "o", "n", ":", " ",
       "c", "l", "o", "s", "e" >> \o CRLF

\* build_request as it would be if Connection: close were written before
\* the headers of the caller
build_request_connection_first(method, url, headers, body) ==
    RequestLine(method, url) \o HostHeader(url) \o ConnectionHeader
    \o HeaderLines(headers, SortedKeys(DOMAIN headers))
    \o ContentLengthHeader(method, body) \o CRLF \o body

\* build_request: request line, Host, the headers of the map in its
\* iteration order, Content-Length, Connection, the empty line, the body
build_request(method, url, headers, body) ==
    RequestLine(method, url) \o HostHeader(url)
    \o HeaderLines(headers, SortedKeys(DOMAIN headers))
    \o ContentLengthHeader(method, body) \o ConnectionHeader
    \o CRLF \o body

\* Successive std::getline(stream, line): the pieces between '\n's; a final
\* piece without '\n' is a line, an empty remainder is not.
RECURSIVE GetLines(_)
GetLines(s) ==
    IF s = <<>> THEN <<>>
    ELSE LET nl == Find(s, << "\n" >>)
         IN  IF nl = -1 THEN << s >>
             ELSE << Substr(s, 0, nl) >> \o GetLines(SubstrFrom(s, nl + 1))

\* if (!line.empty() && line.back() == '\r') line.pop_back();
StripCR(line) ==
    IF line # <<>> /\ line[Len(line)] = "\r"
    THEN SubSeq(line, 1, Len(line) - 1) ELSE line

RECURSIVE SkipSpace(_)
SkipSpace(s) == IF s # <<>> /\ IsSpace(s[1]) THEN SkipSpace(Tail(s)) ELSE s

INT_MAX == 2147483647

INT_MIN == (0 - 2147483647) - 1

\* The magnitude of a digit string, or -1 when it exceeds INT_MAX
RECURSIVE DigitsValue(_, _)
DigitsValue(s, acc) ==
    IF s = <<>> THEN acc
    ELSE IF acc > (INT_MAX - DigitVal(s[1])) \div 10 THEN -1
    ELSE DigitsValue(Tail(s), acc * 10 + DigitVal(s[1]))

\* status_stream >> http_version >> response.status_code, with
\* status_code initially 0: skip white space, take the version token, skip
\* white space, read [+-]digits as an int.  A failed extraction leaves 0; a
\* value out of the range of int is clamped (std::num_get).
ExtractStatus(status_line) ==
    LET s1 == SkipSpace(status_line)
        version_len == SpanNotIn(s1, {" ", "\t", "\n", "\r"})
        s2 == SkipSpace(SubstrFrom(s1, version_len))
        negative == s2 # <<>> /\ s2[1] = "-"
        signed == s2 # <<>> /\ s2[1] \in {"+", "-"}
        s3 == IF signed THEN Tail(s2) ELSE s2
        ndigits == SpanDigits(s3)
        magnitude == DigitsValue(Substr(s3, 0, ndigits), 0)
    IN  IF version_len = 0 \/ ndigits = 0 THEN 0
        ELSE IF magnitude = -1 THEN (IF negative THEN INT_MIN ELSE INT_MAX)
        ELSE IF negative THEN 0 - magnitude
        ELSE magnitude

\* TrimValue as it would be if the value were stored as it stands
TrimValue_none(value) == value

\* value.substr(find_first_not_of(" \t"), ...find_last_not_of(" \t")...)
TrimValue(value) ==
    LET keep == { i \in 1..Len(value) : value[i] \notin {" ", "\t"} }
    IN  IF keep = {} THEN <<>>
        ELSE SubSeq(value,
                    CHOOSE i \in keep : \A j \in keep : i <= j,
                    CHOOSE i \in keep : \A j \in keep : i >= j)

\* The while (std::getline(header_stream, header_line)) loop
RECURSIVE ParseHeaderLines(_, _)
ParseHeaderLines(lines, headers) ==
    IF lines = <<>> THEN headers
    ELSE LET header_line == StripCR(lines[1])
             colon_pos == Find(header_line, << ":" >>)
         IN  IF header_line = <<>> \/ colon_pos = -1
             THEN ParseHeaderLines(Tail(lines), headers)
             ELSE ParseHeaderLines(Tail(lines),
                    SetHeader(headers,
                              Substr(header_line, 0, colon_pos),
                              TrimValue(SubstrFrom(header_line, colon_pos + 1))))

EmptyResponse == [status_code |-> 0, headers |-> NoHeaders, body |-> <<>>]

\* StatusRejected as it would be if error statuses were refused as well
StatusRejected_errors(status_code) == status_code = 0 \/ status_code >= 400

\* if (response.status_code == 0) throw ParseException(...)
StatusRejected(status_code) == status_code = 0

\* BodySection as it would be if the body ended at the next CRLF CRLF
BodySection_framed(response_data, header_end) ==
    LET rest == SubstrFrom(response_data, header_end + 4)
        next == Find(rest, Delimiter)
    IN  IF next = -1 THEN rest ELSE Substr(rest, 0, next)

\* std::string body_section = response_data.substr(header_end + 4)
BodySection(response_data, header_end) ==
    SubstrFrom(response_data, header_end + 4)

\* parse_response; ok = FALSE stands for the ParseException.
parse_response(response_data) ==
    LET header_end == Find(response_data, Delimiter)
        header_section == Substr(response_data, 0, header_end)
        body_section == BodySection(response_data, header_end)
        lines == GetLines(header_section)
        status_line == IF lines = <<>> THEN <<>> ELSE StripCR(lines[1])
        status_code == ExtractStatus(status_line)
    IN  IF header_end = -1 THEN [ok |-> FALSE, response |-> EmptyResponse]
        ELSE IF StatusRejected(status_code)
             THEN [ok |-> FALSE, response |-> EmptyResponse]
        ELSE [ok |-> TRUE,
              response |->
                [status_code |-> status_code,
                 headers |-> ParseHeaderLines(
                                IF lines = <<>> THEN <<>> ELSE Tail(lines),
                                NoHeaders),
                 body |-> body_section]]

(***************************************************************************)
(* CurlHttpClient                                                          *)
(***************************************************************************)

\* validate_url as it would be without the test of the scheme
validate_url_anyscheme(url) == url # <<>> /\ Len(url) >= 10

\* validate_url: TRUE when it returns, FALSE when it throws UrlException
\* (url.find(s) != 0: s is not at the beginning of url)
validate_url(url) ==
    /\ url # <<>>
    /\ ~ ( /\ Find(url, << "h", "t", "t", "p", ":", "/", "/" >>) # 0
           /\ Find(url, << "h", "t", "t", "p", "s", ":", "/", "/" >>) # 0 )
    /\ Len(url) >= 10

\* The exception CurlHttpClient::request throws for a CURLcode other than
\* CURLE_OK
CurlError(res) ==
    CASE res = "CURLE_OPERATION_TIMEDOUT" -> "TimeoutException"
      [] res \in {"CURLE_COULDNT_CONNECT", "CURLE_COULDNT_RESOLVE_HOST"}
            -> "NetworkException"
      [] res \in {"CURLE_SSL_CONNECT_ERROR", "CURLE_PEER_FAILED_VERIFICATION"}
            -> "SslException"
      [] res = "CURLE_URL_MALFORMAT" -> "UrlException"
      [] OTHER -> "NetworkException"

(***************************************************************************)
(* Inputs of the model                                                     *)
(***************************************************************************)

\* "http://a"
UrlHttp ==
    << "h", "t", "t", "p", ":", "/", "/", "a" >>

\* "http://a/x": ten characters, the shortest URL validate_url accepts
UrlTen == << "h", "t", "t", "p", ":", "/", "/", "a", "/", "x" >>

\* "https://a"
UrlHttps ==
    << "h", "t", "t", "p", "s", ":", "/", "/", "a" >>

\* "not-a-url" (Example 10, test_url_validation)
UrlNoScheme ==
    << "n", "o", "t", "-", "a", "-", "u", "r", "l" >>

\* "/n": a relative redirect target
UrlRelative ==
    << "/", "n" >>

\* "H 200\r\n\r\nhi"
Resp200 ==
    << "H", " ", "2", "0", "0", "\r", "\n", "\r", "\n", "h", "i" >>

\* "H 100\r\n\r\n"
Resp100 ==
    << "H", " ", "1", "0", "0", "\r", "\n", "\r", "\n" >>

\* "H 304\r\n\r\n"
Resp304 ==
    << "H", " ", "3", "0", "4", "\r", "\n", "\r", "\n" >>

\* "H 404\r\n\r\nno"
Resp404 ==
    << "H", " ", "4", "0", "4", "\r", "\n", "\r", "\n", "n", "o" >>

\* "H 500\r\n\r\n"
Resp500 ==
    << "H", " ", "5", "0", "0", "\r", "\n", "\r", "\n" >>

\* "H 302\r\nLocation:http://a\r\n\r\n"
Resp302Http ==
    << "H", " ", "3", "0", "2", "\r", "\n", "L", "o", "c", "a", "t", "i",
    "o", "n", ":", "h", "t", "t", "p", ":", "/", "/", "a", "\r", "\n",
    "\r", "\n" >>

\* "H 301\r\nlocation:https://a\r\n\r\n"
Resp301Https ==
    << "H", " ", "3", "0", "1", "\r", "\n", "l", "o", "c", "a", "t", "i",
    "o", "n", ":", "h", "t", "t", "p", "s", ":", "/", "/", "a", "\r",
    "\n", "\r", "\n" >>

\* "H 307\r\nLocation:/n\r\n\r\n"
Resp307Relative ==
    << "H", " ", "3", "0", "7", "\r", "\n", "L", "o", "c", "a", "t", "i",
    "o", "n", ":", "/", "n", "\r", "\n", "\r", "\n" >>

\* "H 302\r\n\r\n"
Resp302NoLocation ==
    << "H", " ", "3", "0", "2", "\r", "\n", "\r", "\n" >>

\* "H xx\r\n\r\n": no integer status
RespBadStatus ==
    << "H", " ", "x", "x", "\r", "\n", "\r", "\n" >>

\* "H 200" and nothing else: the peer never sends the delimiter
RespNoDelimiter ==
    << "H", " ", "2", "0", "0" >>

\* "H 303\r\nLocation:http://c\r\n\r\n": See Other
Resp303 ==
    << "H", " ", "3", "0", "3", "\r", "\n", "L", "o", "c", "a", "t", "i",
       "o", "n", ":", "h", "t", "t", "p", ":", "/", "/", "c", "\r", "\n",
       "\r", "\n" >>

\* "H 308\r\nLOCATION:http://d\r\n\r\n": the header name in upper case
Resp308 ==
    << "H", " ", "3", "0", "8", "\r", "\n", "L", "O", "C", "A", "T", "I",
       "O", "N", ":", "h", "t", "t", "p", ":", "/", "/", "d", "\r", "\n",
       "\r", "\n" >>

\* "H 300\r\nLocation:http://a\r\n\r\n": a 3xx that request() does not follow
Resp300Location ==
    << "H", " ", "3", "0", "0", "\r", "\n", "L", "o", "c", "a", "t", "i",
       "o", "n", ":", "h", "t", "t", "p", ":", "/", "/", "a", "\r", "\n",
       "\r", "\n" >>

\* "H 302\r\nLocation:\r\n\r\n"
Resp302EmptyLocation ==
    << "H", " ", "3", "0", "2", "\r", "\n", "L", "o", "c", "a", "t", "i",
       "o", "n", ":", "\r", "\n", "\r", "\n" >>

\* "H 302\r\nLocation:ftp://a\r\n\r\n"
Resp302Ftp ==
    << "H", " ", "3", "0", "2", "\r", "\n", "L", "o", "c", "a", "t", "i",
       "o", "n", ":", "f", "t", "p", ":", "/", "/", "a", "\r", "\n", "\r",
       "\n" >>

\* "http://c"
UrlC ==
    << "h", "t", "t", "p", ":", "/", "/", "c" >>

\* "http://d"
UrlD ==
    << "h", "t", "t", "p", ":", "/", "/", "d" >>

\* "ftp://a"
UrlFtp ==
    << "f", "t", "p", ":", "/", "/", "a" >>

LocationName == << "L", "o", "c", "a", "t", "i", "o", "n" >>

\* Largest config.max_redirects a caller passes
MaxRedirectsCfg == 2

\* Attempts (invocations of do_http_request / do_https_request) after which
\* the peers stop answering with redirects that would be followed
MaxAttempts == 4

\* Calls of request() made by the caller on the one client
MaxCalls == 1

\* The nonzero config.max_response_size a caller passes
SizeLimit == 9

Methods == { "GET", "POST" }

Urls == { UrlHttp, UrlHttps, UrlNoScheme }

HeaderSets == { NoHeaders }

Bodies == { << "a", "b" >> }

\* RequestConfig.  timeout and connect_timeout are durations; the model has
\* no clock, a deadline may elapse at any moment while its wait is pending.
Configs ==
    [timeout : {30000},
     connect_timeout : {10000},
     follow_redirects : BOOLEAN,
     max_redirects : 0..MaxRedirectsCfg,
     max_response_size : {0, SizeLimit},
     verify_ssl : BOOLEAN,
     ca_bundle_path : {""}]

\* What a peer may put on the wire in answer to a request
ServerResponses ==
    { Resp200, Resp100, Resp304, Resp404, Resp500, Resp302Http,
      Resp301Https, Resp307Relative, Resp302NoLocation, RespBadStatus,
      RespNoDelimiter }

\* An Accept header, as in the examples' headers["Accept"] = ...
AcceptHeader == SetHeader(NoHeaders, << "A" >>, << "j" >>)

\* The calls and the answers under which the redirect decision is examined:
\* every followed code, a 3xx that is not followed, Location missing,
\* empty, relative, of another scheme, and its name in three letter cases
RedirectHeaderSets == { NoHeaders, AcceptHeader }

RedirectConfigs ==
    [timeout : {30000},
     connect_timeout : {10000},
     follow_redirects : BOOLEAN,
     max_redirects : 0..MaxRedirectsCfg,
     max_response_size : {0},
     verify_ssl : {TRUE},
     ca_bundle_path : {""}]

RedirectResponses ==
    { Resp200, Resp304, Resp300Location, Resp301Https, Resp302Http, Resp303,
      Resp307Relative, Resp308, Resp302NoLocation, Resp302EmptyLocation,
      Resp302Ftp }

\* The URLs parse_url is examined with are put together from these parts:
\* the scheme as written, with its lower-case name, whether it is TLS and
\* its default port
SchemeTable ==
    { [text |-> << "h", "t", "t", "p" >>,
       name |-> << "h", "t", "t", "p" >>,
       tls |-> FALSE, default |-> << "8", "0" >>],
      [text |-> << "H", "T", "T", "P" >>,
       name |-> << "h", "t", "t", "p" >>,
       tls |-> FALSE, default |-> << "8", "0" >>],
      [text |-> << "h", "t", "t", "p", "s" >>,
       name |-> << "h", "t", "t", "p", "s" >>,
       tls |-> TRUE, default |-> << "4", "4", "3" >>],
      [text |-> << "h", "T", "T", "p", "S" >>,
       name |-> << "h", "t", "t", "p", "s" >>,
       tls |-> TRUE, default |-> << "4", "4", "3" >>] }

\* "a", "B.c"
UrlHosts ==
    {
      << "a" >>,
      << "B", ".", "c" >> }

\* no port, "80", "443", "8080", "080", "65535", "65536"
UrlPorts ==
    {
      << >>,
      << "8", "0" >>,
      << "4", "4", "3" >>,
      << "8", "0", "8", "0" >>,
      << "0", "8", "0" >>,
      << "6", "5", "5", "3", "5" >>,
      << "6", "5", "5", "3", "6" >> }

\* no path, "/", "/x?y", "/a:1//b"
UrlPaths ==
    {
      << >>,
      << "/" >>,
      << "/", "x", "?", "y" >>,
      << "/", "a", ":", "1", "/", "/", "b" >> }

\* scheme "://" host [":" port] [path]
MakeUrl(scheme, host, port, path) ==
    scheme \o << ":", "/", "/" >> \o host
    \o (IF port = <<>> THEN <<>> ELSE << ":" >> \o port) \o path

GrammarUrls ==
    { MakeUrl(s.text, h, p, q) :
        s \in SchemeTable, h \in UrlHosts, p \in UrlPorts, q \in UrlPaths }

\* URLs that are empty or do not begin with http:// or https://: "", "not-a-url" (test_url_validation), "/n", "ftp://a", "http:/a.b.c", "a.b/http://c", " http://a.b", "htps://a.b"
NoSchemeUrls ==
    {
      << >>,
      << "n", "o", "t", "-", "a", "-", "u", "r", "l" >>,
      << "/", "n" >>,
      << "f", "t", "p", ":", "/", "/", "a" >>,
      << "h", "t", "t", "p", ":", "/", "a", ".", "b", ".", "c" >>,
      << "a", ".", "b", "/", "h", "t", "t", "p", ":", "/", "/", "c" >>,
      << " ", "h", "t", "t", "p", ":", "/", "/", "a", ".", "b" >>,
      << "h", "t", "p", "s", ":", "/", "/", "a", ".", "b" >> }

\* The requests build_request is examined with: the two schemes with
\* their default port numbers
BuildSchemeTable ==
    { [text |-> << "h", "t", "t", "p" >>, tls |-> FALSE, number |-> 80],
      [text |-> << "h", "t", "t", "p", "s" >>, tls |-> TRUE, number |-> 443] }

\* The port as written in the URL (<< >>: not written) and its number
BuildPortTable ==
    { [text |-> <<>>, value |-> 0],
      [text |-> << "8", "0" >>, value |-> 80],
      [text |-> << "4", "4", "3" >>, value |-> 443],
      [text |-> << "8", "0", "8", "0" >>, value |-> 8080],
      [text |-> << "0", "8", "0" >>, value |-> 80] }

\* no path, "/p"
BuildPaths == { <<>>, << "/", "p" >> }

BuildUrls ==
    { MakeUrl(s.text, << "a" >>, p.text, path) :
        s \in BuildSchemeTable, p \in BuildPortTable, path \in BuildPaths }

\* The headers as the caller supplies them, one after the other
BuildHeaderLists ==
    { <<>>,
      << [name |-> << "A" >>, value |-> << "j" >>] >>,
      << [name |-> << "A" >>, value |-> << "j" >>],
         [name |-> << "X" >>, value |-> << "1" >>] >>,
      << [name |-> << "X" >>, value |-> << "1" >>],
         [name |-> << "A" >>, value |-> << "j" >>] >>,
      << [name |-> << "b" >>, value |-> << "2" >>],
         [name |-> << "B" >>, value |-> << "1", ":", " ", "x" >>] >> }

\* The Headers object the caller passes: the map after the insertions
RECURSIVE HeadersOf(_)
HeadersOf(list) ==
    IF list = <<>> THEN NoHeaders
    ELSE SetHeader(HeadersOf(SubSeq(list, 1, Len(list) - 1)),
                   list[Len(list)].name, list[Len(list)].value)

\* The bodies, with their length in decimal
BodyTable ==
    { [bytes |-> <<>>, length |-> << "0" >>],
      [bytes |-> << "a", "b" >>, length |-> << "2" >>],
      [bytes |-> << "0", "1", "2", "3", "4", "5", "6", "7", "8", "9" >>,
       length |-> << "1", "0" >>] }

\* Raw responses without CRLF CRLF: nothing at all, "H 200", "H 200\r\nX:1\r\n", "H 200\n\n"
NoDelimiterInputs ==
    {
      << >>,
      << "H", " ", "2", "0", "0" >>,
      << "H", " ", "2", "0", "0", "\r", "\n", "X", ":", "1", "\r", "\n" >>,
      << "H", " ", "2", "0", "0", "\n", "\n" >> }

\* Raw responses whose status line is not a version and an integer: "H\r\n\r\n" and "H \r\n\r\n" (no second token), "H xx\r\n\r\n" and "H 2xx\r\n\r\n" (second token not a number), "\r\n\r\n" and "\r\nH 200\r\n\r\n" (empty status line)
BadStatusLineInputs ==
    {
      << "H", "\r", "\n", "\r", "\n" >>,
      << "H", " ", "\r", "\n", "\r", "\n" >>,
      << "H", " ", "x", "x", "\r", "\n", "\r", "\n" >>,
      << "H", " ", "2", "x", "x", "\r", "\n", "\r", "\n" >>,
      << "\r", "\n", "\r", "\n" >>,
      << "\r", "\n", "H", " ", "2", "0", "0", "\r", "\n", "\r", "\n" >> }

\* "H 200\r\nA: b\r\n\r\n"
RespHeaderPlain ==
    << "H", " ", "2", "0", "0", "\r", "\n", "A", ":", " ", "b", "\r", "\n",
       "\r", "\n" >>

\* "H 200\r\nA: \t b: c \t\r\n\r\n": spaces and tabs around the value, a colon and a space inside it
RespHeaderTrim ==
    << "H", " ", "2", "0", "0", "\r", "\n", "A", ":", " ", "\t", " ", "b",
       ":", " ", "c", " ", "\t", "\r", "\n", "\r", "\n" >>

\* "H 200\r\nA:1\r\nnocolon\r\nB:2\r\n\r\n": a line without a colon between two headers
RespHeaderNoColon ==
    << "H", " ", "2", "0", "0", "\r", "\n", "A", ":", "1", "\r", "\n", "n",
       "o", "c", "o", "l", "o", "n", "\r", "\n", "B", ":", "2", "\r", "\n",
       "\r", "\n" >>

\* "H 200\r\nA: \t\r\n\r\n": a value of spaces and tabs only
RespHeaderBlank ==
    << "H", " ", "2", "0", "0", "\r", "\n", "A", ":", " ", "\t", "\r",
       "\n", "\r", "\n" >>

\* "H 200\r\nA:1\r\nA:2\r\n\r\n": the same name on two lines
RespHeaderTwice ==
    << "H", " ", "2", "0", "0", "\r", "\n", "A", ":", "1", "\r", "\n", "A",
       ":", "2", "\r", "\n", "\r", "\n" >>

\* "H 200\r\nnocolon\r\n\r\n"
RespOnlyNoColon ==
    << "H", " ", "2", "0", "0", "\r", "\n", "n", "o", "c", "o", "l", "o",
       "n", "\r", "\n", "\r", "\n" >>

HeaderInputs ==
    { RespHeaderPlain, RespHeaderTrim, RespHeaderNoColon, RespHeaderBlank,
      RespHeaderTwice, RespOnlyNoColon }

\* "H 201 x y\r\n\r\n": a status line with a reason phrase
RespReason ==
    << "H", " ", "2", "0", "1", " ", "x", " ", "y", "\r", "\n", "\r",
       "\n" >>

\* "H 200\r\n\r\nab\r\n\r\ncd": CRLF CRLF again inside the body
RespBodyDelimiter ==
    << "H", " ", "2", "0", "0", "\r", "\n", "\r", "\n", "a", "b", "\r",
       "\n", "\r", "\n", "c", "d" >>

\* "H 200\r\nContent-Length: 1\r\n\r\nabc": more bytes than Content-Length says
RespBodyLonger ==
    << "H", " ", "2", "0", "0", "\r", "\n", "C", "o", "n", "t", "e", "n",
       "t", "-", "L", "e", "n", "g", "t", "h", ":", " ", "1", "\r", "\n",
       "\r", "\n", "a", "b", "c" >>

\* "H 200\r\nTransfer-Encoding: chunked\r\n\r\n2\r\nab\r\n0\r\n\r\n": a chunked body
RespBodyChunked ==
    << "H", " ", "2", "0", "0", "\r", "\n", "T", "r", "a", "n", "s", "f",
       "e", "r", "-", "E", "n", "c", "o", "d", "i", "n", "g", ":", " ",
       "c", "h", "u", "n", "k", "e", "d", "\r", "\n", "\r", "\n", "2",
       "\r", "\n", "a", "b", "\r", "\n", "0", "\r", "\n", "\r", "\n" >>

BodyInputs ==
    { RespReason, RespBodyDelimiter, RespBodyLonger, RespBodyChunked }

ParseInputs ==
    NoDelimiterInputs \cup BadStatusLineInputs \cup {Resp200, Resp404}
    \cup HeaderInputs \cup BodyInputs

\* DefaultConfig as it would be with other member initializers
DefaultConfig_other ==
    [timeout |-> 10000, connect_timeout |-> 30000, follow_redirects |-> TRUE,
     max_redirects |-> 0, max_response_size |-> 0, verify_ssl |-> TRUE,
     ca_bundle_path |-> ""]

\* RequestConfig{}: the default member initializers (durations in
\* milliseconds)
DefaultConfig ==
    [timeout |-> 30000, connect_timeout |-> 10000, follow_redirects |-> TRUE,
     max_redirects |-> 5, max_response_size |-> 0, verify_ssl |-> TRUE,
     ca_bundle_path |-> ""]

\* What curl_easy_perform may return
CurlCodes ==
    { "CURLE_OK", "CURLE_OPERATION_TIMEDOUT", "CURLE_COULDNT_CONNECT",
      "CURLE_COULDNT_RESOLVE_HOST", "CURLE_SSL_CONNECT_ERROR",
      "CURLE_PEER_FAILED_VERIFICATION", "CURLE_URL_MALFORMAT",
      "CURLE_RECV_ERROR" }

\* The pieces of a response body libcurl hands to the write callback
CurlChunks == { << "x" >>, << "a", "b", "c", "d" >> }

\* Bytes a peer sends as a body when the caller set no limit
MaxCurlBody == 12

\* What the callbacks and CURLINFO_RESPONSE_CODE may have collected when
\* curl_easy_perform returns CURLE_OK
CurlResponses ==
    { [status_code |-> 200, headers |-> NoHeaders, body |-> << "h", "i" >>],
      [status_code |-> 404, headers |-> NoHeaders, body |-> <<>>] }

\* The certificate a TLS peer presents: its issuer (a CA of the default
\* trust store, the CA of the bundle file "ca.pem", a CA nobody trusts) and
\* the host it is issued for, here the host "a" of the URLs
Certs ==
    [issuer : { "system_ca", "ca.pem", "unknown_ca" }, host : { << "a" >> }]

\* Certificates of a CA of the default trust store issued for another host
\* than the one the URLs name
OtherHostCerts == [issuer : { "system_ca" }, host : { << "b" >> }]

\* The CA bundle files load_verify_file can load
LoadableBundles == { "ca.pem" }

(***************************************************************************)
(* State                                                                   *)
(***************************************************************************)

VARIABLES
    pc,               \* where the call of request() stands
    method, url, headers, body, config,  \* arguments of the current request()
    calls,            \* calls of request() made by the caller so far
    attempts,         \* do_http_request/do_https_request invocations of the call
    ssl_context,      \* *ssl_context_: verify mode and loaded CA bundles
    socket,           \* the attempt's socket: "closed" or "open"
    timer,            \* the attempt's steady_timer: "idle", "armed", "elapsed"
    timeout_occurred, \* the local the wait handler would set
    ec,               \* error_code of the last blocking operation
    request_data,     \* the serialized request
    sent,             \* bytes written to the socket in this attempt
    wire,             \* bytes the peer has still to send
    response_buffer,  \* the boost::asio::streambuf
    response_data,    \* the std::string later given to parse_response
    received,         \* every byte received in this attempt, in arrival order
    body_reads,       \* body-loop reads that transferred bytes (0, 1, 2 = more)
    parsed,           \* parse_response was called in this attempt
    outcome,          \* what the call returned or raised
    helper,           \* a Response held by the caller and what its helper
                      \* member called last returned
    curl_objects      \* the CurlHttpClient objects of the caller, their
                      \* curl_handle_ members, the easy handles libcurl
                      \* made and cleaned up, and the object request() is
                      \* called on

vars ==
    << pc, method, url, headers, body, config, calls, attempts, ssl_context,
       socket, timer, timeout_occurred, ec, request_data, sent, wire,
       response_buffer, response_data, received, body_reads, parsed, outcome,
       helper, curl_objects >>

args == << method, headers, body, config >>

attempt_io ==
    << request_data, sent, wire, response_buffer, response_data, received,
       body_reads >>

NoOutcome == [kind |-> "none", detail |-> "", response |-> EmptyResponse]

\* CurlHttpClient objects the caller has room for
MaxClients == 3

ClientIds == 1..MaxClients

\* CURL* handle = nullptr
NullHandle == 0

\* The object 1 constructed (curl_easy_init gave it the easy handle 1), the
\* other objects not yet; object[k].state is "none" before the
\* constructor, "failed" when the constructor threw, "alive", "destroyed";
\* cleanups[h] counts the calls of curl_easy_cleanup on the easy handle h;
\* inits counts the easy handles curl_easy_init returned; this is the
\* object request() is called on
OneCurlClient ==
    [object |-> [k \in ClientIds |->
                   IF k = 1
                   THEN [state |-> "alive", curl_handle_ |-> 1]
                   ELSE [state |-> "none", curl_handle_ |-> NullHandle]],
     cleanups |-> [h \in ClientIds |-> 0],
     inits |-> 1,
     this |-> 1]

\* http::Response response; no helper called yet
NoHelper ==
    [response |-> EmptyResponse, call |-> "none", name |-> <<>>,
     found |-> Nullopt, classes |-> {}]

\* The value of config while no call is in progress
NoConfig ==
    [timeout |-> 0, connect_timeout |-> 0, follow_redirects |-> TRUE,
     max_redirects |-> 0, max_response_size |-> 0, verify_ssl |-> TRUE,
     ca_bundle_path |-> ""]

\* AsioHttpClient::AsioHttpClient(): set_default_verify_paths, verify_peer
Init ==
    /\ pc = "idle"
    /\ method = "GET"
    /\ url = <<>>
    /\ headers = NoHeaders
    /\ body = <<>>
    /\ config = NoConfig
    /\ calls = 0
    /\ attempts = 0
    /\ ssl_context = [verify_mode |-> "verify_peer", anchors |-> {}]
    /\ socket = "closed"
    /\ timer = "idle"
    /\ timeout_occurred = FALSE
    /\ ec = "ok"
    /\ request_data = <<>>
    /\ sent = <<>>
    /\ wire = <<>>
    /\ response_buffer = <<>>
    /\ response_data = <<>>
    /\ received = <<>>
    /\ body_reads = 0
    /\ parsed = FALSE
    /\ outcome = NoOutcome
    /\ helper = NoHelper
    /\ curl_objects = OneCurlClient

(***************************************************************************)
(* Leaving request(): an exception or a returned Response unwinds every    *)
(* frame; the destructors of the attempt's socket and timer close and      *)
(* cancel them.                                                            *)
(***************************************************************************)

\* Throw as it would be if the socket and the timer outlived the frame
Throw_leaving(kind, detail) ==
    /\ pc' = "done"
    /\ outcome' = [kind |-> kind, detail |-> detail, response |-> EmptyResponse]
    /\ UNCHANGED << socket, timer >>

Throw(kind, detail) ==
    /\ pc' = "done"
    /\ outcome' = [kind |-> kind, detail |-> detail, response |-> EmptyResponse]
    /\ socket' = "closed"
    /\ timer' = "idle"

\* ReturnResponse as it would be if the connection were kept for reuse
ReturnResponse_keepalive(response) ==
    /\ pc' = "done"
    /\ outcome' = [kind |-> "Response", detail |-> "", response |-> response]
    /\ UNCHANGED socket
    /\ timer' = "idle"

ReturnResponse(response) ==
    /\ pc' = "done"
    /\ outcome' = [kind |-> "Response", detail |-> "", response |-> response]
    /\ socket' = "closed"
    /\ timer' = "idle"

(***************************************************************************)
(* The redirect decision of request() and handle_redirect                  *)
(***************************************************************************)

RedirectStatus == { 301, 302, 303, 307, 308 }

\* The condition of request() under which handle_redirect is called
IsRedirect(cfg, response) ==
    /\ cfg.follow_redirects
    /\ response.status_code \in RedirectStatus
    /\ LET location == get_header(response, LocationName)
       IN  location.has_value /\ location.value # <<>>

\* handle_redirect: "throw" (too many redirects) or "follow"
handle_redirect(cfg, redirect_count) ==
    IF redirect_count >= cfg.max_redirects THEN "throw" ELSE "follow"

\* The redirect_count request() passes to handle_redirect
RedirectCountArg == 1

\* RedirectCall as it would be if a hop were re-issued as a GET without body
RedirectCall_get(m, location, h, b, c) ==
    [method |-> "GET", url |-> location, headers |-> h, body |-> <<>>,
     config |-> c]

\* The arguments of the call of request() that follows a redirect:
\* handle_redirect(method, *location, headers, body, config, 1) and in it
\* request(method, location, headers, body, config)
RedirectCall(m, location, h, b, c) ==
    [method |-> m, url |-> location, headers |-> h, body |-> b, config |-> c]

\* A raw response after which request() would call itself again
WouldFollow(cfg, raw) ==
    LET p == parse_response(raw)
    IN  /\ p.ok
        /\ IsRedirect(cfg, p.response)
        /\ handle_redirect(cfg, RedirectCountArg) = "follow"

(***************************************************************************)
(* Reading: what the code takes out of the streambuf                       *)
(***************************************************************************)

\* std::string{buffers_begin(response_buffer.data()),
\*             buffers_end(response_buffer.data())} after read_until: the
\* whole readable area of the streambuf (nothing is ever consume()d)
BufferData(buffer) == buffer

\* BodyChunk as it would be if each read's bytes were taken out of the
\* streambuf: only the bytes of the last read
BodyChunk_lastread(buffer, bytes_transferred) ==
    SubSeq(buffer, Len(buffer) - bytes_transferred + 1, Len(buffer))

\* The string "chunk" of the body loop after a read that transferred
\* bytes_transferred bytes into the streambuf, assigned to response_data
BodyChunk(buffer, bytes_transferred) == buffer

\* config.max_response_size > 0 && response_data.size() > max_response_size
ExceedsMaxSize(cfg, data) ==
    cfg.max_response_size > 0 /\ Len(data) > cfg.max_response_size

\* ssl verification of the peer certificate under the context the stream
\* was created from: verify_none accepts anything, verify_peer accepts a
\* chain to the default store or to a loaded bundle
VerifyPeer(context, cert) ==
    \/ context.verify_mode = "verify_none"
    \/ cert.issuer = "system_ca"
    \/ cert.issuer \in context.anchors

IsHttps == parse_url(url).is_https

\* Failed as it would be if the error_code were not looked at
Failed_never(result) == FALSE

\* if (ec) after resolve, connect and write
Failed(result) == result # "ok"

\* VerifyMode as it would be if verify_peer were not set again
VerifyMode_sticky(context, cfg) ==
    IF ~cfg.verify_ssl THEN "verify_none" ELSE context.verify_mode

\* if (!config.verify_ssl) set_verify_mode(verify_none)
\* else set_verify_mode(verify_peer)
VerifyMode(context, cfg) ==
    IF ~cfg.verify_ssl THEN "verify_none" ELSE "verify_peer"

\* LoadsFile as it would be if the bundle were loaded whatever verify_ssl
LoadsFile_always(cfg) == cfg.ca_bundle_path # ""

\* load_verify_file(config.ca_bundle_path, ec) is called
LoadsFile(cfg) == cfg.verify_ssl /\ cfg.ca_bundle_path # ""

(***************************************************************************)
(* Actions                                                                 *)
(*                                                                         *)
(* do_http_request and do_https_request run the same write, read_until,    *)
(* body loop and final checks, on socket and on ssl_socket; Write,         *)
(* ReadUntil, ReadBody and Finish stand for both.  They differ in the      *)
(* context update before the resolve, in the checks after the connect and  *)
(* in the handshake, which request, Connect and Handshake tell apart.      *)
(***************************************************************************)

\* client.request(m, u, h, b, c) is entered from the caller
Invoke(m, u, h, b, c) ==
    /\ pc = "idle"
    /\ UNCHANGED << helper, curl_objects >>
    /\ pc' = "request"
    /\ method' = m
    /\ url' = u
    /\ headers' = h
    /\ body' = b
    /\ config' = c
    /\ calls' = calls + 1
    /\ attempts' = 0
    /\ outcome' = NoOutcome
    /\ ec' = "ok"
    /\ request_data' = <<>>
    /\ sent' = <<>>
    /\ wire' = <<>>
    /\ response_buffer' = <<>>
    /\ response_data' = <<>>
    /\ received' = <<>>
    /\ body_reads' = 0
    /\ parsed' = FALSE
    /\ UNCHANGED << ssl_context, socket, timer, timeout_occurred >>

\* The caller invokes client.request(m, u, h, b, c)
Call(m, u, h, b, c) ==
    /\ calls < MaxCalls
    /\ Invoke(m, u, h, b, c)

\* request(), entered by the caller or by handle_redirect: parse_url,
\* build_request, then do_http_request / do_https_request up to the point
\* where the blocking connect starts (context update, resolve, first
\* timer.async_wait).  resolves is the resolver's answer.
request(resolves) ==
    /\ pc = "request"
    /\ UNCHANGED << helper, curl_objects >>
    /\ sent' = <<>>
    /\ wire' = <<>>
    /\ response_buffer' = <<>>
    /\ response_data' = <<>>
    /\ received' = <<>>
    /\ body_reads' = 0
    /\ parsed' = FALSE
    /\ timeout_occurred' = FALSE
    /\ UNCHANGED << args, url, calls >>
    /\ LET parsed_url == parse_url(url)
           load_file == LoadsFile(config)
           load_failed == load_file /\ config.ca_bundle_path \notin LoadableBundles
           context ==
               IF ~parsed_url.is_https THEN ssl_context
               ELSE [verify_mode |-> VerifyMode(ssl_context, config),
                     anchors |-> IF load_file /\ ~load_failed
                                 THEN ssl_context.anchors \cup {config.ca_bundle_path}
                                 ELSE ssl_context.anchors]
       IN  IF ~parsed_url.ok
           THEN /\ Throw("UrlException", "invalid_url")
                /\ request_data' = <<>>
                /\ ec' = "ok"
                /\ UNCHANGED << attempts, ssl_context >>
           ELSE /\ request_data' = build_request(method, parsed_url, headers, body)
                /\ attempts' = attempts + 1
                /\ ssl_context' = context
                /\ IF parsed_url.is_https /\ load_failed
                   THEN /\ ec' = "no_such_file"
                        /\ Throw("SslException", "ca_bundle")
                   ELSE LET result == IF resolves THEN "ok"
                                      ELSE "host_not_found"
                        IN  /\ ec' = result
                            /\ IF Failed(result)
                               THEN Throw("NetworkException", "resolve")
                               ELSE /\ pc' = "connect"
                                    /\ timer' = "armed"
                                    /\ UNCHANGED << socket, outcome >>

\* The deadline of the pending wait passes.  The wait's completion handler
\* (timeout_occurred = true; socket.close()) is a handler of io_context_,
\* and handlers are invoked only from io_context::run()/poll(), which this
\* repository never calls: the blocking connect, handshake, write, read_until
\* and read do not run it.  So no step ever sets timeout_occurred or closes
\* the socket from the timer; the expiry changes the state of the clock only.
DeadlineElapses ==
    /\ timer = "armed"
    /\ UNCHANGED << helper, curl_objects >>
    /\ timer' = "elapsed"
    /\ UNCHANGED << pc, args, url, calls, attempts, ssl_context, socket,
                    timeout_occurred, ec, attempt_io, parsed, outcome >>

\* boost::asio::connect returns with result ("ok" or "error")
Connect(result) ==
    /\ pc = "connect"
    /\ UNCHANGED << helper, curl_objects >>
    /\ ec' = result
    /\ UNCHANGED << args, url, calls, attempts, ssl_context, timeout_occurred,
                    attempt_io, parsed >>
    /\ IF ~IsHttps
       THEN \* do_http_request: timer.cancel() first, then the two checks
            IF timeout_occurred
            THEN Throw("TimeoutException", "CONNECTION")
            ELSE IF Failed(result)
            THEN Throw("NetworkException", "connect")
            ELSE /\ pc' = "write"
                 /\ socket' = "open"
                 /\ timer' = "armed"
                 /\ UNCHANGED outcome
       ELSE \* do_https_request: the checks are made only if (ec)
            IF Failed(result)
            THEN IF timeout_occurred
                 THEN Throw("TimeoutException", "CONNECTION")
                 ELSE Throw("NetworkException", "connect")
            ELSE /\ pc' = "handshake"
                 /\ socket' = "open"
                 /\ UNCHANGED << timer, outcome >>

\* ssl_socket.handshake returns: the peer presented cert, and the protocol
\* exchange itself went through or not
Handshake(cert, exchanged) ==
    /\ pc = "handshake"
    /\ UNCHANGED << helper, curl_objects >>
    /\ UNCHANGED << args, url, calls, attempts, ssl_context, timeout_occurred,
                    attempt_io, parsed >>
    /\ LET result == IF ~exchanged THEN "error"
                     ELSE IF ~VerifyPeer(ssl_context, cert)
                     THEN "certificate_verify_failed"
                     ELSE "ok"
       IN  /\ ec' = result
           /\ IF timeout_occurred
              THEN Throw("TimeoutException", "CONNECTION")
              ELSE IF result # "ok"
              THEN Throw("SslException", "handshake")
              ELSE /\ pc' = "write"
                   /\ timer' = "armed"
                   /\ UNCHANGED << socket, outcome >>

\* boost::asio::write returns with result; when the request went out, the
\* peer decides on answer, the bytes it is going to send
Write(result, answer) ==
    /\ pc = "write"
    /\ UNCHANGED << helper, curl_objects >>
    /\ attempts < MaxAttempts \/ ~WouldFollow(config, answer)
    /\ ec' = result
    /\ UNCHANGED << args, url, calls, attempts, ssl_context, timeout_occurred,
                    request_data, response_buffer, response_data, received,
                    body_reads, parsed >>
    /\ IF Failed(result)
       THEN /\ Throw("NetworkException", "write")
            /\ UNCHANGED << sent, wire >>
       ELSE /\ pc' = "read_until"
            /\ sent' = request_data
            /\ wire' = answer
            /\ UNCHANGED << socket, timer, outcome >>

\* After the reading: timer.cancel(), the timeout check, (TLS: shutdown),
\* parse_response(data), and back in request() the redirect decision, which
\* ends the call or enters request() again with the Location as url
Finish(data) ==
    IF timeout_occurred
    THEN /\ Throw("TimeoutException", "RESPONSE")
         /\ UNCHANGED << args, url, parsed >>
    ELSE LET p == parse_response(data)
         IN  /\ parsed' = TRUE
             /\ IF ~p.ok
                THEN Throw("ParseException", "malformed")
                     /\ UNCHANGED << args, url >>
                ELSE IF ~IsRedirect(config, p.response)
                THEN ReturnResponse(p.response) /\ UNCHANGED << args, url >>
                ELSE IF handle_redirect(config, RedirectCountArg) = "throw"
                THEN Throw("NetworkException", "too_many_redirects")
                     /\ UNCHANGED << args, url >>
                ELSE LET next == RedirectCall(
                                    method,
                                    get_header(p.response, LocationName).value,
                                    headers, body, config)
                     IN  /\ pc' = "request"
                         /\ method' = next.method
                         /\ url' = next.url
                         /\ headers' = next.headers
                         /\ body' = next.body
                         /\ config' = next.config
                         /\ socket' = "closed"
                         /\ timer' = "idle"
                         /\ UNCHANGED outcome

\* One read_some of boost::asio::read_until(socket, response_buffer,
\* "\r\n\r\n", ec): the peer delivers the next n bytes, or closes ("eof"),
\* or the connection fails ("error")
ReadUntil(event) ==
    /\ pc = "read_until"
    /\ UNCHANGED << helper, curl_objects >>
    /\ UNCHANGED << calls, attempts, ssl_context, timeout_occurred,
                    request_data, sent, body_reads >>
    /\ IF event = "data"
       THEN /\ \E n \in 1..Len(wire) :
                 LET buffer == response_buffer \o SubSeq(wire, 1, n)
                 IN  /\ response_buffer' = buffer
                     /\ received' = received \o SubSeq(wire, 1, n)
                     /\ wire' = SubSeq(wire, n + 1, Len(wire))
                     /\ IF Find(buffer, Delimiter) # -1
                        THEN /\ pc' = "read_body"
                             /\ ec' = "ok"
                             /\ response_data' = BufferData(buffer)
                        ELSE UNCHANGED << pc, ec, response_data >>
            /\ UNCHANGED << args, url, socket, timer, parsed, outcome >>
       ELSE /\ ec' = event
            /\ UNCHANGED << wire, response_buffer, received >>
            /\ IF event = "eof"
               THEN /\ response_data' = BufferData(response_buffer)
                    /\ Finish(BufferData(response_buffer))
               ELSE /\ UNCHANGED << response_data, args, url, parsed >>
                    /\ IF timeout_occurred
                       THEN Throw("TimeoutException", "REQUEST")
                       ELSE Throw("NetworkException", "read_headers")

\* One iteration of the body loop, while (!ec): boost::asio::read with
\* transfer_at_least(1) returns n bytes, or 0 bytes with ec = eof / error
ReadBody(event) ==
    /\ pc = "read_body"
    /\ UNCHANGED << helper, curl_objects >>
    /\ UNCHANGED << calls, attempts, ssl_context, timeout_occurred,
                    request_data, sent >>
    /\ IF event = "data"
       THEN /\ \E n \in 1..Len(wire) :
                 LET buffer == response_buffer \o SubSeq(wire, 1, n)
                     chunk == BodyChunk(buffer, n)
                 IN  /\ response_buffer' = buffer
                     /\ received' = received \o SubSeq(wire, 1, n)
                     /\ wire' = SubSeq(wire, n + 1, Len(wire))
                     /\ response_data' = chunk
                     /\ IF ExceedsMaxSize(config, chunk)
                        THEN Throw("ParseException", "size")
                        ELSE UNCHANGED << pc, socket, timer, outcome >>
            /\ body_reads' = IF body_reads < 2 THEN body_reads + 1 ELSE 2
            /\ ec' = "ok"
            /\ UNCHANGED << args, url, parsed >>
       ELSE /\ ec' = event
            /\ UNCHANGED << wire, response_buffer, received, response_data,
                            body_reads >>
            /\ Finish(response_data)

\* The caller has the Response, or has caught the exception (the try/catch
\* blocks of demonstrate_client); every local of the call is gone
Returned ==
    /\ pc = "done"
    /\ UNCHANGED << helper, curl_objects >>
    /\ pc' = "idle"
    /\ outcome' = NoOutcome
    /\ attempts' = 0
    /\ ec' = "ok"
    /\ request_data' = <<>>
    /\ sent' = <<>>
    /\ wire' = <<>>
    /\ response_buffer' = <<>>
    /\ response_data' = <<>>
    /\ received' = <<>>
    /\ body_reads' = 0
    /\ parsed' = FALSE
    /\ method' = "GET"
    /\ url' = <<>>
    /\ headers' = NoHeaders
    /\ body' = <<>>
    /\ config' = NoConfig
    /\ UNCHANGED << calls, ssl_context, socket, timer, timeout_occurred >>

Next ==
    \/ \E m \in Methods, u \in Urls, h \in HeaderSets, b \in Bodies,
          c \in Configs : Call(m, u, h, b, c)
    \/ \E resolves \in BOOLEAN : request(resolves)
    \/ DeadlineElapses
    \/ \E result \in {"ok", "error"} : Connect(result)
    \/ \E cert \in Certs, exchanged \in BOOLEAN : Handshake(cert, exchanged)
    \/ \E result \in {"ok", "error"}, answer \in ServerResponses :
          Write(result, answer)
    \/ \E event \in {"data", "eof", "error"} : ReadUntil(event)
    \/ \E event \in {"data", "eof", "error"} : ReadBody(event)
    \/ Returned

Spec == Init /\ [][Next]_vars

\* What the platform guarantees to happen: the clock advances; request()
\* runs up to the connect; the blocking connect returns (the kernel gives up
\* by itself after its SYN retries); the blocking write of the request
\* returns.  Nothing makes a peer send or close, so the handshake and the
\* reads have no fairness, nor has the caller's next call.
FairSpec ==
    /\ Spec
    /\ WF_vars(DeadlineElapses)
    /\ WF_vars(\E resolves \in BOOLEAN : request(resolves))
    /\ WF_vars(\E result \in {"ok", "error"} : Connect(result))
    /\ WF_vars(\E result \in {"ok", "error"}, answer \in ServerResponses :
                  Write(result, answer))
    /\ WF_vars(Returned)

\* The same client, called with the calls and answered with the answers of
\* the redirect decision
RedirectNext ==
    \/ \E m \in Methods, h \in RedirectHeaderSets, b \in Bodies,
          c \in RedirectConfigs : Call(m, UrlHttp, h, b, c)
    \/ \E resolves \in BOOLEAN : request(resolves)
    \/ DeadlineElapses
    \/ \E result \in {"ok", "error"} : Connect(result)
    \/ \E cert \in Certs, exchanged \in BOOLEAN : Handshake(cert, exchanged)
    \/ \E result \in {"ok", "error"}, answer \in RedirectResponses :
          Write(result, answer)
    \/ \E event \in {"data", "eof", "error"} : ReadUntil(event)
    \/ \E event \in {"data", "eof", "error"} : ReadBody(event)
    \/ Returned

RedirectSpec == Init /\ [][RedirectNext]_vars

(***************************************************************************)
(* CurlHttpClient::request                                                 *)
(***************************************************************************)

\* request(m, u, h, b, c) of the CurlHttpClient object k is entered from
\* the caller
CurlInvoke(k, m, u, h, b, c) ==
    /\ pc = "idle"
    /\ curl_objects.object[k].state = "alive"
    /\ UNCHANGED helper
    /\ curl_objects' = [curl_objects EXCEPT !.this = k]
    /\ pc' = "curl_request"
    /\ method' = m
    /\ url' = u
    /\ headers' = h
    /\ body' = b
    /\ config' = c
    /\ calls' = calls + 1
    /\ attempts' = 0
    /\ outcome' = NoOutcome
    /\ ec' = "ok"
    /\ UNCHANGED << ssl_context, socket, timer, timeout_occurred, attempt_io,
                    parsed >>

\* The caller invokes request(m, u, h, b, c) on the CurlHttpClient it
\* constructed first
CurlCall(m, u, h, b, c) ==
    /\ calls < MaxCalls
    /\ CurlInvoke(1, m, u, h, b, c)

\* CURL* curl = curl_handle_.get() of the object request() is called on
CurlHandleOfThis == curl_objects.object[curl_objects.this].curl_handle_

\* CurlHttpClient::request up to curl_easy_perform: validate_url, the test
\* of the handle, then setup_request and the header list, which only set
\* options of the handle
CurlRequest ==
    /\ pc = "curl_request"
    /\ UNCHANGED << helper, curl_objects >>
    /\ UNCHANGED << args, url, calls, attempts, ssl_context, timeout_occurred,
                    ec, attempt_io, parsed >>
    /\ IF ~validate_url(url)
       THEN Throw("UrlException", "validate_url")
       ELSE IF CurlHandleOfThis = NullHandle
       THEN Throw("NetworkException", "handle")
       ELSE /\ pc' = "curl_perform"
            /\ UNCHANGED << socket, timer, outcome >>

\* curl_easy_perform runs the transfer and returns res; with CURLE_OK the
\* callbacks have filled in response
CurlPerform(res, response) ==
    /\ pc = "curl_perform"
    /\ UNCHANGED << helper, curl_objects >>
    /\ attempts' = attempts + 1
    /\ UNCHANGED << args, url, calls, ssl_context, timeout_occurred, ec,
                    attempt_io, parsed >>
    /\ IF res # "CURLE_OK"
       THEN Throw(CurlError(res), res)
       ELSE ReturnResponse(response)

\* ResponseData::append_body throws ParseException("Response size exceeds
\* maximum allowed size")
append_body_throws(body_, size, max_size) ==
    max_size > 0 /\ Len(body_) + size > max_size

\* libcurl hands data to write_callback while curl_easy_perform runs
\* (response_data.max_size is config.max_response_size, set by
\* setup_request). The callback catches whatever append_body throws and
\* returns 0; libcurl then aborts the transfer, curl_easy_perform returns
\* CURLE_WRITE_ERROR and request() throws what its switch chooses for it.
write_callback(data) ==
    /\ pc = "curl_perform"
    /\ UNCHANGED << helper, curl_objects >>
    /\ Len(response_data) + Len(data) <= MaxCurlBody
    /\ UNCHANGED << args, url, calls, ssl_context, timeout_occurred, ec,
                    request_data, sent, wire, response_buffer, received,
                    body_reads, parsed >>
    /\ IF append_body_throws(response_data, Len(data),
                             config.max_response_size)
       THEN /\ attempts' = attempts + 1
            /\ response_data' = response_data
            /\ Throw(CurlError("CURLE_WRITE_ERROR"), "CURLE_WRITE_ERROR")
       ELSE /\ response_data' = response_data \o data
            /\ UNCHANGED << pc, attempts, socket, timer, outcome >>

\* curl_easy_perform returns CURLE_OK after the write callbacks: the
\* Response takes CURLINFO_RESPONSE_CODE and response_data.body
CurlPerformOk(status_code) ==
    /\ pc = "curl_perform"
    /\ UNCHANGED << helper, curl_objects >>
    /\ attempts' = attempts + 1
    /\ UNCHANGED << args, url, calls, ssl_context, timeout_occurred, ec,
                    attempt_io, parsed >>
    /\ ReturnResponse([status_code |-> status_code, headers |-> NoHeaders,
                       body |-> response_data])

\* max_response_size zero and nonzero
CurlSizeConfigs ==
    { DefaultConfig, [DefaultConfig EXCEPT !.max_response_size = SizeLimit] }

\* CurlHttpClient called with and without a limit; the peers send bodies of
\* every length, in pieces
CurlSizeNext ==
    \/ \E m \in Methods, c \in CurlSizeConfigs :
          CurlCall(m, UrlTen, NoHeaders, <<>>, c)
    \/ CurlRequest
    \/ \E data \in CurlChunks : write_callback(data)
    \/ \E status_code \in {200, 404} : CurlPerformOk(status_code)
    \/ \E res \in CurlCodes \ {"CURLE_OK"} :
          CurlPerform(res, EmptyResponse)
    \/ Returned

CurlSizeSpec == Init /\ [][CurlSizeNext]_vars

(***************************************************************************)
(* Construction, moves and destruction of CurlHttpClient objects           *)
(***************************************************************************)

\* Calls of request() made by the caller on its CurlHttpClient objects
MaxHandleCalls == 2

\* if (handle) curl_easy_cleanup(handle)
Cleanup(cleanups, handle) ==
    IF handle = NullHandle THEN cleanups
    ELSE [cleanups EXCEPT ![handle] = @ + 1]

\* MovedFromHandle as it would be if the source of a move kept its handle
MovedFromHandle_kept(handle) == handle

\* other.handle = nullptr in the move constructor and the move assignment
\* of CurlHandle
MovedFromHandle(handle) == NullHandle

\* Everything but curl_objects
request_state ==
    << pc, method, url, headers, body, config, calls, attempts, ssl_context,
       socket, timer, timeout_occurred, ec, request_data, sent, wire,
       response_buffer, response_data, received, body_reads, parsed, outcome,
       helper >>

\* http::CurlHttpClient client;  CurlHandle() calls curl_easy_init and
\* throws NetworkException when it returns no handle
Construct(k, ok) ==
    /\ pc = "idle"
    /\ curl_objects.object[k].state = "none"
    /\ UNCHANGED request_state
    /\ curl_objects' =
         IF ok
         THEN [curl_objects EXCEPT
                 !.inits = @ + 1,
                 !.object[k] = [state |-> "alive",
                                curl_handle_ |-> curl_objects.inits + 1]]
         ELSE [curl_objects EXCEPT !.object[k].state = "failed"]

\* http::CurlHttpClient k(std::move(other));
MoveConstruct(k, other) ==
    /\ pc = "idle"
    /\ k # other
    /\ curl_objects.object[k].state = "none"
    /\ curl_objects.object[other].state = "alive"
    /\ UNCHANGED request_state
    /\ LET handle == curl_objects.object[other].curl_handle_
       IN  curl_objects' =
             [curl_objects EXCEPT
                !.object[k] = [state |-> "alive", curl_handle_ |-> handle],
                !.object[other].curl_handle_ = MovedFromHandle(handle)]

\* k = std::move(other);  nothing when k and other are the same object
MoveAssign(k, other) ==
    /\ pc = "idle"
    /\ curl_objects.object[k].state = "alive"
    /\ curl_objects.object[other].state = "alive"
    /\ UNCHANGED request_state
    /\ LET handle == curl_objects.object[other].curl_handle_
       IN  curl_objects' =
             IF k = other THEN curl_objects
             ELSE [curl_objects EXCEPT
                     !.cleanups = Cleanup(@, curl_objects.object[k].curl_handle_),
                     !.object[k].curl_handle_ = handle,
                     !.object[other].curl_handle_ = MovedFromHandle(handle)]

\* The object k goes out of scope: ~CurlHandle()
Destroy(k) ==
    /\ pc = "idle"
    /\ curl_objects.object[k].state = "alive"
    /\ UNCHANGED request_state
    /\ curl_objects' =
         [curl_objects EXCEPT
            !.cleanups = Cleanup(@, curl_objects.object[k].curl_handle_),
            !.object[k] = [state |-> "destroyed", curl_handle_ |-> NullHandle]]

\* The caller invokes request(GET, u, {}, "", {}) on its object k
HandleCall(k, u) ==
    /\ calls < MaxHandleCalls
    /\ CurlInvoke(k, "GET", u, NoHeaders, <<>>, DefaultConfig)

\* The caller constructs, moves, calls and destroys CurlHttpClient objects
HandleNext ==
    \/ \E k \in ClientIds, ok \in BOOLEAN : Construct(k, ok)
    \/ \E k \in ClientIds, other \in ClientIds : MoveConstruct(k, other)
    \/ \E k \in ClientIds, other \in ClientIds : MoveAssign(k, other)
    \/ \E k \in ClientIds : Destroy(k)
    \/ \E k \in ClientIds, u \in {UrlTen, UrlNoScheme} : HandleCall(k, u)
    \/ CurlRequest
    \/ \E res \in {"CURLE_OK", "CURLE_COULDNT_CONNECT"},
          response \in CurlResponses : CurlPerform(res, response)
    \/ Returned

HandleSpec == Init /\ [][HandleNext]_vars

(***************************************************************************)
(* The convenience methods of both clients                                 *)
(***************************************************************************)

Clients == { "AsioHttpClient", "CurlHttpClient" }

\* get, post, put, del, patch, head
Wrappers == { "get", "post", "put", "del", "patch", "head" }

\* The wrappers that have a body parameter
BodyWrappers == { "post", "put", "patch" }

\* pc while the wrapper name of client is entered and has not yet called
\* request()
WrapperPc(client, name) ==
    IF client = "AsioHttpClient" THEN name
    ELSE CASE name = "get"   -> "curl_get"
           [] name = "post"  -> "curl_post"
           [] name = "put"   -> "curl_put"
           [] name = "del"   -> "curl_del"
           [] name = "patch" -> "curl_patch"
           [] name = "head"  -> "curl_head"

\* WrapperMethod as it would be if every wrapper asked for a GET
WrapperMethod_get(name) == "GET"

\* The Method the wrapper passes to request()
WrapperMethod(name) ==
    CASE name = "get"   -> "GET"
      [] name = "post"  -> "POST"
      [] name = "put"   -> "PUT"
      [] name = "del"   -> "DELETE"
      [] name = "patch" -> "PATCH"
      [] name = "head"  -> "HEAD"

\* The body the wrapper passes to request(): its parameter, or ""
WrapperBody(name, b) == IF name \in BodyWrappers THEN b ELSE <<>>

\* The caller invokes client.get(u, h, c), client.post(u, b, h, c), ...;
\* b is looked at only for the wrappers that have the parameter
Wrapper(client, name, u, b, h, c) ==
    /\ pc = "idle"
    /\ UNCHANGED << helper, curl_objects >>
    /\ calls < MaxCalls
    /\ pc' = WrapperPc(client, name)
    /\ url' = u
    /\ headers' = h
    /\ body' = IF name \in BodyWrappers THEN b ELSE <<>>
    /\ config' = c
    /\ calls' = calls + 1
    /\ attempts' = 0
    /\ outcome' = NoOutcome
    /\ ec' = "ok"
    /\ UNCHANGED << method, ssl_context, socket, timer, timeout_occurred,
                    attempt_io, parsed >>

\* return request(Method::..., url, headers, body or "", config);
WrapperRequest ==
    \E client \in Clients, name \in Wrappers :
        /\ pc = WrapperPc(client, name)
        /\ UNCHANGED << helper, curl_objects >>
        /\ pc' = IF client = "AsioHttpClient" THEN "request"
                 ELSE "curl_request"
        /\ method' = WrapperMethod(name)
        /\ body' = WrapperBody(name, body)
        /\ UNCHANGED << url, headers, config, calls, attempts, ssl_context,
                        socket, timer, timeout_occurred, ec, attempt_io,
                        parsed, outcome >>

\* The arguments the wrappers are called with
WrapperUrls == { UrlHttp, UrlTen, UrlNoScheme }

WrapperBodies == { <<>>, << "a", "b" >> }

WrapperConfigs ==
    { DefaultConfig, [DefaultConfig EXCEPT !.follow_redirects = FALSE] }

\* Both clients called through their wrappers
WrapperNext ==
    \/ \E client \in Clients, name \in Wrappers, u \in WrapperUrls,
          b \in WrapperBodies, h \in RedirectHeaderSets,
          c \in WrapperConfigs : Wrapper(client, name, u, b, h, c)
    \/ WrapperRequest
    \/ \E resolves \in BOOLEAN : request(resolves)
    \/ DeadlineElapses
    \/ \E result \in {"ok", "error"} : Connect(result)
    \/ \E result \in {"ok", "error"}, answer \in {Resp200, Resp404} :
          Write(result, answer)
    \/ \E event \in {"data", "eof", "error"} : ReadUntil(event)
    \/ \E event \in {"data", "eof", "error"} : ReadBody(event)
    \/ CurlRequest
    \/ \E res \in CurlCodes, response \in CurlResponses :
          CurlPerform(res, response)
    \/ Returned

WrapperSpec == Init /\ [][WrapperNext]_vars

\* Both clients called with a URL and the defaults for the rest; the peers
\* refuse every connection
UrlNext ==
    \/ \E u \in GrammarUrls \cup NoSchemeUrls :
          Call("GET", u, NoHeaders, <<>>, DefaultConfig)
    \/ \E u \in GrammarUrls \cup NoSchemeUrls :
          CurlCall("GET", u, NoHeaders, <<>>, DefaultConfig)
    \/ \E resolves \in BOOLEAN : request(resolves)
    \/ DeadlineElapses
    \/ Connect("error")
    \/ CurlRequest
    \/ \E res \in CurlCodes, response \in CurlResponses :
          CurlPerform(res, response)
    \/ Returned

UrlSpec == Init /\ [][UrlNext]_vars

\* AsioHttpClient called with every method, the URLs, header maps and
\* bodies of build_request; the peers refuse every connection
BuildNext ==
    \/ \E m \in Method, u \in BuildUrls, l \in BuildHeaderLists,
          b \in BodyTable : Call(m, u, HeadersOf(l), b.bytes, DefaultConfig)
    \/ \E resolves \in BOOLEAN : request(resolves)
    \/ DeadlineElapses
    \/ Connect("error")
    \/ Returned

BuildSpec == Init /\ [][BuildNext]_vars

\* AsioHttpClient called with GET "http://a"; the peers answer with the
\* inputs of parse_response
ParseNext ==
    \/ Call("GET", UrlHttp, NoHeaders, <<>>, DefaultConfig)
    \/ \E resolves \in BOOLEAN : request(resolves)
    \/ DeadlineElapses
    \/ \E result \in {"ok", "error"} : Connect(result)
    \/ \E result \in {"ok", "error"}, answer \in ParseInputs :
          Write(result, answer)
    \/ \E event \in {"data", "eof", "error"} : ReadUntil(event)
    \/ \E event \in {"data", "eof", "error"} : ReadBody(event)
    \/ Returned

ParseSpec == Init /\ [][ParseNext]_vars

(***************************************************************************)
(* One client called several times over TLS                                *)
(***************************************************************************)

\* Calls of request() made by the caller on the one client
MaxTlsCalls == 2

\* The caller invokes client.request(GET, u, {}, "", c) once more
TlsCall(u, c) ==
    /\ calls < MaxTlsCalls
    /\ Invoke("GET", u, NoHeaders, <<>>, c)

\* verify_ssl on and off; no CA bundle, one that loads, one that does not
TlsConfigs ==
    [timeout : {30000},
     connect_timeout : {10000},
     follow_redirects : {TRUE},
     max_redirects : {5},
     max_response_size : {0},
     verify_ssl : BOOLEAN,
     ca_bundle_path : {"", "ca.pem", "missing.pem"}]

TlsNext ==
    \/ \E u \in {UrlHttp, UrlHttps}, c \in TlsConfigs : TlsCall(u, c)
    \/ \E resolves \in BOOLEAN : request(resolves)
    \/ DeadlineElapses
    \/ \E result \in {"ok", "error"} : Connect(result)
    \/ \E cert \in Certs, exchanged \in BOOLEAN : Handshake(cert, exchanged)
    \/ \E result \in {"ok", "error"} : Write(result, Resp200)
    \/ \E event \in {"data", "eof", "error"} : ReadUntil(event)
    \/ \E event \in {"data", "eof", "error"} : ReadBody(event)
    \/ Returned

TlsSpec == Init /\ [][TlsNext]_vars

(***************************************************************************)
(* TLS peers that present the certificate of another host                  *)
(***************************************************************************)

HostConfigs == { DefaultConfig, [DefaultConfig EXCEPT !.verify_ssl = FALSE] }

\* AsioHttpClient called with "https://a"; every peer presents a certificate
\* that a trusted CA issued for the host "b"
HostNext ==
    \/ \E m \in Methods, c \in HostConfigs :
          Call(m, UrlHttps, NoHeaders, <<>>, c)
    \/ \E resolves \in BOOLEAN : request(resolves)
    \/ DeadlineElapses
    \/ \E result \in {"ok", "error"} : Connect(result)
    \/ \E cert \in OtherHostCerts, exchanged \in BOOLEAN :
          Handshake(cert, exchanged)
    \/ \E result \in {"ok", "error"}, answer \in {Resp200, Resp404} :
          Write(result, answer)
    \/ \E event \in {"data", "eof", "error"} : ReadUntil(event)
    \/ \E event \in {"data", "eof", "error"} : ReadBody(event)
    \/ Returned

HostSpec == Init /\ [][HostNext]_vars

(***************************************************************************)
(* Calls that leave the config to its default argument                     *)
(***************************************************************************)

\* The caller invokes client.request(m, u, h, b) of an AsioHttpClient:
\* const RequestConfig& config = RequestConfig{}
CallDefault(m, u, h, b) ==
    /\ calls < MaxCalls
    /\ Invoke(m, u, h, b, DefaultConfig)

\* The same on a CurlHttpClient
CurlCallDefault(m, u, h, b) == CurlCall(m, u, h, b, DefaultConfig)

\* The answers: a plain one, redirects, one with a longer body
DefaultResponses == { Resp200, Resp302Http, Resp301Https, RespBodyLonger }

DefaultNext ==
    \/ \E m \in Methods, u \in {UrlHttp, UrlHttps}, b \in WrapperBodies :
          CallDefault(m, u, NoHeaders, b)
    \/ \E m \in Methods, u \in {UrlHttp, UrlTen}, b \in WrapperBodies :
          CurlCallDefault(m, u, NoHeaders, b)
    \/ \E resolves \in BOOLEAN : request(resolves)
    \/ DeadlineElapses
    \/ \E result \in {"ok", "error"} : Connect(result)
    \/ \E cert \in Certs, exchanged \in BOOLEAN : Handshake(cert, exchanged)
    \/ \E result \in {"ok", "error"}, answer \in DefaultResponses :
          Write(result, answer)
    \/ \E event \in {"data", "eof", "error"} : ReadUntil(event)
    \/ \E event \in {"data", "eof", "error"} : ReadBody(event)
    \/ CurlRequest
    \/ \E res \in CurlCodes, response \in CurlResponses :
          CurlPerform(res, response)
    \/ Returned

DefaultSpec == Init /\ [][DefaultNext]_vars

(***************************************************************************)
(* The helper members of Response (test_response_helpers)                  *)
(***************************************************************************)

MaxStatus == 1000

\* response.status_code = ...: an int; every code up to MaxStatus, a
\* negative one and INT_MAX
StatusCodes == (0..MaxStatus) \cup {-1, 2147483647}

\* response.headers[...] = ...: the keys a caller stores, two of them equal
\* when letter case is ignored, and the values
StoredNames == { << "A", "b" >>, << "a", "B" >>, << "C" >> }

StoredValues == { << "1" >>, << "2" >> }

HelperHeaderSets ==
    UNION { [keys -> StoredValues] : keys \in SUBSET StoredNames }

\* The names looked up: in the case of a stored key, in another case, and
\* one that is never stored
LookupNames ==
    { << "a", "b" >>, << "A", "B" >>, << "a", "B" >>, << "c" >>, << "D" >> }

\* The codes test_response_helpers assigns
TestedCodes == { 200, 404, 500 }

\* http::Response response; with status_code and headers assigned: every
\* code without headers, and the tested codes with every set of headers
HelperResponses ==
    { [status_code |-> code, headers |-> NoHeaders, body |-> <<>>] :
        code \in StatusCodes }
    \cup { [status_code |-> code, headers |-> h, body |-> <<>>] :
             code \in TestedCodes, h \in HelperHeaderSets }

HelperInit ==
    /\ pc = "idle"
    /\ method = "GET"
    /\ url = <<>>
    /\ headers = NoHeaders
    /\ body = <<>>
    /\ config = NoConfig
    /\ calls = 0
    /\ attempts = 0
    /\ ssl_context = [verify_mode |-> "verify_peer", anchors |-> {}]
    /\ socket = "closed"
    /\ timer = "idle"
    /\ timeout_occurred = FALSE
    /\ ec = "ok"
    /\ request_data = <<>>
    /\ sent = <<>>
    /\ wire = <<>>
    /\ response_buffer = <<>>
    /\ response_data = <<>>
    /\ received = <<>>
    /\ body_reads = 0
    /\ parsed = FALSE
    /\ outcome = NoOutcome
    /\ helper \in { [NoHelper EXCEPT !.response = r] : r \in HelperResponses }
    /\ curl_objects = OneCurlClient

\* response.get_header(name)
GetHeader(name) ==
    /\ helper' = [helper EXCEPT !.call = "get_header",
                                !.name = name,
                                !.found = get_header(helper.response, name),
                                !.classes = {}]
    /\ UNCHANGED << pc, method, url, headers, body, config, calls, attempts,
                    ssl_context, socket, timer, timeout_occurred, ec,
                    request_data, sent, wire, response_buffer, response_data,
                    received, body_reads, parsed, outcome, curl_objects >>

\* response.is_success(), response.is_client_error() and
\* response.is_server_error(), called one after the other
Classify ==
    /\ helper' = [helper EXCEPT
          !.call = "classify",
          !.name = <<>>,
          !.found = Nullopt,
          !.classes =
              (IF is_success(helper.response)
               THEN {"is_success"} ELSE {})
              \cup (IF is_client_error(helper.response)
                    THEN {"is_client_error"} ELSE {})
              \cup (IF is_server_error(helper.response)
                    THEN {"is_server_error"} ELSE {})]
    /\ UNCHANGED << pc, method, url, headers, body, config, calls, attempts,
                    ssl_context, socket, timer, timeout_occurred, ec,
                    request_data, sent, wire, response_buffer, response_data,
                    received, body_reads, parsed, outcome, curl_objects >>

HelperNext ==
    \/ \E name \in LookupNames : GetHeader(name)
    \/ Classify

HelperSpec == HelperInit /\ [][HelperNext]_vars

(***************************************************************************)
(* Properties                                                              *)
(***************************************************************************)

\* C1: with max_redirects = N, the k-th redirect of a call is followed only
\* if k <= N; on the (N+1)-th consecutive redirect response request() raises
\* NetworkException instead of entering request() again.  (attempts = k at
\* the entry of request() means that k redirects have been followed.)
C1_TooManyRedirectsRaise ==
    (pc = "request" /\ attempts > 0) => attempts <= config.max_redirects

\* C2: with max_redirects = N >= 1, "too many redirects" is raised only when
\* the chain has more than N redirects: a chain of k <= N redirects is
\* followed to its end.  (When it is raised, attempts is the number of
\* redirect responses of the chain.)
C2_ChainWithinLimitFollowed ==
    ( /\ pc = "done"
      /\ outcome.kind = "NetworkException"
      /\ outcome.detail = "too_many_redirects"
      /\ config.max_redirects >= 1 )
    => attempts > config.max_redirects

\* C3: one call of request() issues at most max_redirects + 1 attempts.
C3_AttemptsBounded == attempts <= config.max_redirects + 1

\* C4: once the connect deadline has passed while the connect (or the TLS
\* handshake that shares the deadline) is pending, the call can only end by
\* raising TimeoutException of type CONNECTION.
C4_ConnectDeadlineRaisesTimeout ==
    [][ (timer = "elapsed" /\ pc \in {"connect", "handshake"})
        => \/ pc' \in {"connect", "handshake"}
           \/ /\ pc' = "done"
              /\ outcome'.kind = "TimeoutException"
              /\ outcome'.detail = "CONNECTION" ]_vars

\* C5: every call of request() eventually returns or raises.
C5_RequestEventuallyEnds == (pc = "request") ~> (pc = "done")

\* C6: once the deadline has passed while the response is being read, before
\* or after the delimiter, the call can only end by raising TimeoutException
\* of the one read phase (Type::RESPONSE).
C6_ReadDeadlineRaisesOnePhase ==
    [][ (timer = "elapsed" /\ pc \in {"read_until", "read_body"})
        => \/ pc' \in {"read_until", "read_body"}
           \/ /\ pc' = "done"
              /\ outcome'.kind = "TimeoutException"
              /\ outcome'.detail = "RESPONSE" ]_vars

\* C7: during the body loop and when parse_response is called, response_data
\* is the concatenation, in arrival order, of all bytes received by every
\* read of the attempt.
C7_ParserInputIsAllReceived ==
    (pc = "read_body" \/ parsed) => response_data = received

\* C7 witness: a Response parsed from bytes that arrived in the read that
\* found the delimiter and in two or more body reads.
C7_Witness ==
    /\ pc = "done"
    /\ parsed
    /\ body_reads >= 2
    /\ outcome.kind = "Response"
    /\ outcome.response.body = << "h", "i" >>

\* C8: with max_response_size nonzero, request() never returns a Response
\* built from more than max_response_size received bytes.
C8_OversizeRaises ==
    (pc = "done" /\ outcome.kind = "Response" /\ config.max_response_size > 0)
    => Len(received) <= config.max_response_size

\* C9: when the reading of an attempt ended with an I/O error other than the
\* peer's orderly close, request() does not return a Response.
C9_NoPartialResponse ==
    (pc = "done" /\ ec = "error") => outcome.kind # "Response"

\* The well-formed answers of the peers: the bytes, the status code they
\* carry, and whether they are a redirect (3xx of the followed codes with a
\* non-empty Location)
WellFormed ==
    { [raw |-> Resp200, status |-> 200, redirect |-> FALSE],
      [raw |-> Resp100, status |-> 100, redirect |-> FALSE],
      [raw |-> Resp304, status |-> 304, redirect |-> FALSE],
      [raw |-> Resp404, status |-> 404, redirect |-> FALSE],
      [raw |-> Resp500, status |-> 500, redirect |-> FALSE],
      [raw |-> Resp302NoLocation, status |-> 302, redirect |-> FALSE],
      [raw |-> Resp302Http, status |-> 302, redirect |-> TRUE],
      [raw |-> Resp301Https, status |-> 301, redirect |-> TRUE],
      [raw |-> Resp307Relative, status |-> 307, redirect |-> TRUE] }

OutcomeKinds ==
    { "Response", "NetworkException", "TimeoutException", "SslException",
      "UrlException", "ParseException" }

\* C10: a call ends with one outcome, a Response or an exception of the five
\* kinds; and when the peer has sent a whole well-formed response and closed,
\* and the response is not a redirect to follow, the call returns a Response
\* carrying the status code of that response, whatever the code is (the only
\* exception raised for such a response is the one of the size limit).
C10_StatusNeverRaises ==
    pc = "done" =>
      /\ outcome.kind \in OutcomeKinds
      /\ \A w \in WellFormed :
           ( /\ parsed
             /\ ec = "eof"
             /\ received = w.raw
             /\ ~(config.follow_redirects /\ w.redirect) )
           => \/ /\ outcome.kind = "Response"
                 /\ outcome.response.status_code = w.status
              \/ /\ outcome.kind = "ParseException"
                 /\ outcome.detail = "size"
                 /\ config.max_response_size > 0
                 /\ Len(received) > config.max_response_size

\* C10 witness: a 404 returned to the caller as a Response.
C10_Witness ==
    /\ pc = "done"
    /\ outcome.kind = "Response"
    /\ outcome.response.status_code = 404
    /\ outcome.response.body = << "n", "o" >>

\* The followed redirects among the answers: the bytes, their status code
\* and the value of their Location header
RedirectTable ==
    { [raw |-> Resp301Https, status |-> 301, location |-> UrlHttps],
      [raw |-> Resp302Http, status |-> 302, location |-> UrlHttp],
      [raw |-> Resp303, status |-> 303, location |-> UrlC],
      [raw |-> Resp307Relative, status |-> 307, location |-> UrlRelative],
      [raw |-> Resp308, status |-> 308, location |-> UrlD],
      [raw |-> Resp302Ftp, status |-> 302, location |-> UrlFtp] }

\* C11: a redirect hop, for each of 301, 302, 303, 307 and 308, enters
\* request() again with the method, the headers, the body and the config of
\* the call unchanged (a 303 does not turn the method into GET nor drop the
\* body); only the URL changes, to the value of the Location header of the
\* response just received.
C11_HopKeepsRequest ==
    [][ (pc \in {"read_until", "read_body"} /\ pc' = "request")
        => /\ method' = method
           /\ headers' = headers
           /\ body' = body
           /\ config' = config
           /\ \E w \in RedirectTable :
                 received = w.raw /\ url' = w.location ]_vars

\* C11 witness: a POST with a body and a header, answered by a 303, is at
\* the entry of request() again as a POST with that body and that header,
\* for the Location of the 303.
C11_Witness ==
    /\ pc = "request"
    /\ attempts = 1
    /\ url = UrlC
    /\ method = "POST"
    /\ body = << "a", "b" >>
    /\ headers = AcceptHeader

\* The answers that are not redirects to follow: another status, or no
\* Location, or an empty one
NotFollowedTable ==
    { [raw |-> Resp200, status |-> 200],
      [raw |-> Resp304, status |-> 304],
      [raw |-> Resp300Location, status |-> 300],
      [raw |-> Resp302NoLocation, status |-> 302],
      [raw |-> Resp302EmptyLocation, status |-> 302] }

\* C12: when an attempt has read its response to the end, a redirect hop
\* follows if and only if follow_redirects is true, the status is one of
\* 301/302/303/307/308 and the response has a non-empty Location header,
\* whatever the letter case of its name (the hop is owed while no more than
\* max_redirects redirects have been received); in every other case the
\* call ends there and returns the response of this attempt.
C12_HopIffRedirectCondition ==
    [][ ( /\ pc \in {"read_until", "read_body"}
          /\ pc' \notin {"read_until", "read_body"}
          /\ ec' = "eof" )
        => /\ ( /\ config.follow_redirects
                /\ attempts <= config.max_redirects
                /\ \E w \in RedirectTable : received = w.raw )
              => pc' = "request"
           /\ pc' = "request"
              => /\ config.follow_redirects
                 /\ \E w \in RedirectTable : received = w.raw
           /\ \A w \in NotFollowedTable \cup
                        (IF config.follow_redirects THEN {}
                         ELSE { [raw |-> r.raw, status |-> r.status] :
                                   r \in RedirectTable }) :
                 received = w.raw
                 => /\ pc' = "done"
                    /\ outcome'.kind = "Response"
                    /\ outcome'.response.status_code = w.status ]_vars

\* C13: when request() is entered for a hop whose Location is not an
\* absolute http(s) URL (the relative "/n", "ftp://a"), the call ends there
\* with UrlException: no attempt is counted, no socket is opened and no
\* deadline is armed for that hop.
C13_BadLocationRaisesUrlError ==
    [][ (pc = "request" /\ attempts >= 1 /\ url \in {UrlRelative, UrlFtp})
        => /\ pc' = "done"
           /\ outcome'.kind = "UrlException"
           /\ attempts' = attempts
           /\ socket' = "closed"
           /\ timer' = "idle"
           /\ sent' = <<>> ]_vars

\* C13 witness: a call that ended with UrlException after one attempt, on
\* the Location of another scheme.
C13_Witness ==
    /\ pc = "done"
    /\ outcome.kind = "UrlException"
    /\ attempts = 1
    /\ url = UrlFtp

\* C14: for every URL scheme://host[:port][/path] with the scheme http or
\* https in any letter case, parse_url returns the scheme in lower case,
\* is_https exactly for https, the host, the port as given or else 80 for
\* http and 443 for https, and the path as given or else "/"; the path
\* begins with "/", the host is not empty and has no ':' and no '/'.
C14_ParseUrlComponents ==
    \A s \in SchemeTable, h \in UrlHosts, p \in UrlPorts, q \in UrlPaths :
        (pc \in {"connect", "done"} /\ url = MakeUrl(s.text, h, p, q))
        => LET parsed_url == parse_url(url)
           IN  /\ ~(outcome.kind = "UrlException"
                     /\ outcome.detail = "invalid_url")
               /\ parsed_url =
                     [ok |-> TRUE,
                      protocol |-> s.name,
                      host |-> h,
                      port |-> IF p = <<>> THEN s.default ELSE p,
                      path |-> IF q = <<>> THEN << "/" >> ELSE q,
                      is_https |-> s.tls]
               /\ parsed_url.path[1] = "/"
               /\ parsed_url.host # <<>>
               /\ \A i \in 1..Len(parsed_url.host) :
                     parsed_url.host[i] \notin {":", "/"}

\* C14 witness: request() has parsed "hTTpS://B.c:8080/a:1//b" and is at
\* the connect.
C14_Witness ==
    /\ pc = "connect"
    /\ url = MakeUrl(<< "h", "T", "T", "p", "S" >>, << "B", ".", "c" >>,
                     << "8", "0", "8", "0" >>,
                     << "/", "a", ":", "1", "/", "/", "b" >>)
    /\ socket = "closed"

\* C15: for both clients, a request whose URL is empty or does not begin
\* with http:// or https:// ends with UrlException as the first thing that
\* happens in the call: no transfer or attempt is started, no socket is
\* opened, no deadline is armed, nothing is sent.
C15_NoSchemeRaisesBeforeNetwork ==
    [][ (pc \in {"request", "curl_request"} /\ url \in NoSchemeUrls)
        => /\ pc' = "done"
           /\ outcome'.kind = "UrlException"
           /\ attempts = 0 /\ attempts' = 0
           /\ socket' = "closed"
           /\ timer' = "idle"
           /\ sent' = <<>> ]_vars

\* C15 witness: the libcurl client has rejected "not-a-url" in validate_url.
C15_Witness ==
    /\ pc = "done"
    /\ url = UrlNoScheme
    /\ outcome.kind = "UrlException"
    /\ outcome.detail = "validate_url"
    /\ attempts = 0

\* The names of the methods on the wire
MethodNames ==
    { [method |-> "GET", name |-> << "G", "E", "T" >>],
      [method |-> "POST", name |-> << "P", "O", "S", "T" >>],
      [method |-> "PUT", name |-> << "P", "U", "T" >>],
      [method |-> "DELETE", name |-> << "D", "E", "L", "E", "T", "E" >>],
      [method |-> "PATCH", name |-> << "P", "A", "T", "C", "H" >>],
      [method |-> "HEAD", name |-> << "H", "E", "A", "D" >>] }

StartsWith(s, prefix) ==
    Len(s) >= Len(prefix) /\ SubSeq(s, 1, Len(prefix)) = prefix

\* The lines of the header block of a serialized request, each with its
\* line end taken off after the first '\n' : up to and including the line
\* before the empty line
HeadLines(data) ==
    GetLines(Substr(data, 0, Find(data, Delimiter) + 2))

HostPrefix == << "H", "o", "s", "t", ":", " " >>

ContentLengthPrefix ==
    << "C", "o", "n", "t", "e", "n", "t", "-", "L", "e", "n", "g", "t", "h",
       ":", " " >>

ConnectionClose ==
    << "C", "o", "n", "n", "e", "c", "t", "i", "o", "n", ":", " ",
       "c", "l", "o", "s", "e" >>

\* "GET / HTTP/1.1\r\nHost: a\r\nConnection: close\r\n\r\n"
MinimalGet ==
    << "G", "E", "T", " ", "/", " ", "H", "T", "T", "P", "/", "1", ".",
       "1", "\r", "\n", "H", "o", "s", "t", ":", " ", "a", "\r", "\n", "C",
       "o", "n", "n", "e", "c", "t", "i", "o", "n", ":", " ", "c", "l",
       "o", "s", "e", "\r", "\n", "\r", "\n" >>

\* A request has been serialized in the call
Built == pc \in {"connect", "done"} /\ request_data # <<>>

\* C16: the serialized request is, in this order, the request line
\* "<METHOD> <path> HTTP/1.1" with the upper-case name of the method, the
\* Host header, the headers of the caller, the Content-Length header if
\* there is one, "Connection: close", an empty line and the body; every
\* line ends with CRLF; a GET of "http://a" with no headers and no body is
\* exactly request line, Host, Connection: close, empty line.
C16_RequestLayout ==
    Built =>
      LET lines == HeadLines(request_data)
          n == Len(lines)
          k == Cardinality(DOMAIN headers)
      IN  /\ Find(request_data, Delimiter) # -1
          /\ n \in {k + 3, k + 4}
          /\ \A i \in 1..n : lines[i] # <<>> /\ lines[i][Len(lines[i])] = "\r"
          /\ \E m \in MethodNames, s \in BuildSchemeTable,
                p \in BuildPortTable, path \in BuildPaths :
                /\ m.method = method
                /\ url = MakeUrl(s.text, << "a" >>, p.text, path)
                /\ StripCR(lines[1]) =
                      m.name \o << " " >>
                      \o (IF path = <<>> THEN << "/" >> ELSE path)
                      \o << " ", "H", "T", "T", "P", "/", "1", ".", "1" >>
          /\ StartsWith(lines[2], HostPrefix)
          /\ { StripCR(lines[i]) : i \in 3..(k + 2) } =
                { name \o << ":", " " >> \o headers[name] :
                    name \in DOMAIN headers }
          /\ n = k + 4 => StartsWith(lines[k + 3], ContentLengthPrefix)
          /\ StripCR(lines[n]) = ConnectionClose
          /\ SubstrFrom(request_data, Find(request_data, Delimiter) + 4) = body
          /\ ( /\ method = "GET" /\ url = UrlHttp
               /\ headers = NoHeaders /\ body = <<>> )
             => request_data = MinimalGet

\* C16 witness: a DELETE with two headers and a body of two bytes has been
\* serialized for "https://a:8080/p".
C16_Witness ==
    /\ Built
    /\ method = "DELETE"
    /\ DOMAIN headers = { << "A" >>, << "X" >> }
    /\ body = << "a", "b" >>
    /\ url = MakeUrl(<< "h", "t", "t", "p", "s" >>, << "a" >>,
                     << "8", "0", "8", "0" >>, << "/", "p" >>)

\* The positions of the Content-Length headers in the header block
ContentLengthLines(data) ==
    { i \in 1..Len(HeadLines(data)) :
        StartsWith(HeadLines(data)[i], ContentLengthPrefix) }

\* C17: build_request emits a Content-Length header if and only if the body
\* is not empty and the method is POST, PUT, PATCH or DELETE, exactly one,
\* whose value is the length of the body in bytes in decimal; for GET and
\* HEAD, and for an empty body, it emits none.
C17_ContentLengthIffBodyMethod ==
    Built =>
      \A b \in BodyTable :
        body = b.bytes =>
          LET lines == HeadLines(request_data)
              found == ContentLengthLines(request_data)
          IN  IF b.bytes # <<>> /\ method \in {"POST", "PUT", "PATCH", "DELETE"}
              THEN /\ Cardinality(found) = 1
                   /\ \A i \in found :
                         StripCR(lines[i]) = ContentLengthPrefix \o b.length
              ELSE found = {}

\* C17 witness: a PATCH with a body of ten bytes has been serialized.
C17_Witness ==
    /\ Built
    /\ method = "PATCH"
    /\ Len(body) = 10
    /\ ContentLengthLines(request_data) # {}

\* C18: the Host header is the host alone exactly when the port of the URL
\* is not written or its numeric value is the default of the scheme (80 for
\* http, 443 for https), and "host:port" otherwise: http on 443 and https
\* on 80 carry the port, a default port that is written is left out.
C18_HostPortIffNonDefault ==
    Built =>
      \A s \in BuildSchemeTable, p \in BuildPortTable, path \in BuildPaths :
        url = MakeUrl(s.text, << "a" >>, p.text, path)
        => StripCR(HeadLines(request_data)[2]) =
             HostPrefix \o << "a" >>
             \o (IF p.text = <<>> \/ p.value = s.number THEN <<>>
                 ELSE << ":" >> \o p.text)

\* C19: the headers of the caller are on the wire in the order in which the
\* caller supplied them, one line "<name>: <value>" per supplied header,
\* name and value as supplied.
C19_HeadersInSuppliedOrder ==
    Built =>
      \A l \in BuildHeaderLists :
        headers = HeadersOf(l)
        => \A i \in 1..Len(l) :
             StripCR(HeadLines(request_data)[2 + i]) =
               l[i].name \o << ":", " " >> \o l[i].value

\* C20: when parse_response is given a raw response without CRLF CRLF, or
\* one whose status line is not a version token followed by an integer
\* status code (no second token, a second token that is not a number, an
\* empty status line), the call ends with ParseException: no Response and no
\* other exception.
C20_MalformedRaisesParseError ==
    ( /\ pc = "done"
      /\ parsed
      /\ response_data \in NoDelimiterInputs \cup BadStatusLineInputs )
    => outcome.kind = "ParseException"

\* The responses with header lines, and the headers they carry: name is
\* the text before the first colon of a line, value the text after it
\* without the spaces and tabs at its two ends
HeaderTable ==
    { [raw |-> RespHeaderPlain,
       headers |-> SetHeader(NoHeaders, << "A" >>, << "b" >>)],
      [raw |-> RespHeaderTrim,
       headers |-> SetHeader(NoHeaders, << "A" >>, << "b", ":", " ", "c" >>)],
      [raw |-> RespHeaderNoColon,
       headers |-> SetHeader(SetHeader(NoHeaders, << "A" >>, << "1" >>),
                             << "B" >>, << "2" >>)],
      [raw |-> RespHeaderBlank,
       headers |-> SetHeader(NoHeaders, << "A" >>, <<>>)],
      [raw |-> RespHeaderTwice,
       headers |-> SetHeader(NoHeaders, << "A" >>, << "2" >>)],
      [raw |-> RespOnlyNoColon, headers |-> NoHeaders] }

\* C21: of a response with a valid status line, every header line with a
\* colon gives the header named by the text before the first colon, with
\* the text after it, less the spaces and tabs at its ends, as value
\* (colons inside the value are kept; of two lines of one name the later
\* gives the value); a line without a colon is skipped without an error and
\* leaves the other headers as they are.
C21_HeaderLinesParsed ==
    \A w \in HeaderTable :
        (pc = "done" /\ parsed /\ response_data = w.raw)
        => /\ outcome.kind = "Response"
           /\ outcome.response.headers = w.headers

\* C21 witness: the response with a line without a colon between the
\* headers A and B has been returned.
C21_Witness ==
    /\ pc = "done"
    /\ parsed
    /\ response_data = RespHeaderNoColon
    /\ DOMAIN outcome.response.headers = { << "A" >>, << "B" >> }

\* The responses with a valid status line and a body: the integer of the
\* status line and the bytes after the first CRLF CRLF
ResponseBodyTable ==
    { [raw |-> Resp200, status |-> 200, body |-> << "h", "i" >>],
      [raw |-> Resp404, status |-> 404, body |-> << "n", "o" >>],
      [raw |-> RespReason, status |-> 201, body |-> <<>>],
      [raw |-> RespBodyDelimiter, status |-> 200,
       body |-> << "a", "b", "\r", "\n", "\r", "\n", "c", "d" >>],
      [raw |-> RespBodyLonger, status |-> 200, body |-> << "a", "b", "c" >>],
      [raw |-> RespBodyChunked, status |-> 200,
       body |-> << "2", "\r", "\n", "a", "b", "\r", "\n", "0", "\r", "\n",
                   "\r", "\n" >>] }

\* C22: of a raw response with a valid status line, the Response has the
\* integer of the status line as status_code and exactly the bytes after
\* the first CRLF CRLF as body: a later CRLF CRLF, a Content-Length and a
\* Transfer-Encoding header neither cut nor change them.
C22_StatusAndBodyVerbatim ==
    \A w \in ResponseBodyTable :
        (pc = "done" /\ parsed /\ response_data = w.raw)
        => /\ outcome.kind = "Response"
           /\ outcome.response.status_code = w.status
           /\ outcome.response.body = w.body

\* C22 witness: the response with CRLF CRLF inside its body has been
\* returned with a body of eight bytes.
C22_Witness ==
    /\ pc = "done"
    /\ parsed
    /\ response_data = RespBodyDelimiter
    /\ outcome.kind = "Response"
    /\ Len(outcome.response.body) = 8

\* Pairs of letters that differ in case only
LetterCases == { {"A", "a"}, {"B", "b"}, {"C", "c"}, {"D", "d"} }

\* s and t are equal when letter case is ignored
EqualIgnoringCase(s, t) ==
    /\ Len(s) = Len(t)
    /\ \A i \in 1..Len(s) : s[i] = t[i] \/ {s[i], t[i]} \in LetterCases

\* C23: get_header(name) returns a value if and only if some stored key
\* equals name when letter case is ignored; the value returned is the value
\* stored under such a key; otherwise it returns nullopt.  The lookup leaves
\* the headers as they were.
C23_GetHeaderIgnoresCase ==
    [][helper'.call = "get_header"
       => LET stored == helper.response.headers
              matching == { k \in DOMAIN stored :
                              EqualIgnoringCase(k, helper'.name) }
          IN  /\ helper'.found.has_value <=> matching # {}
              /\ helper'.found.has_value
                 => \E k \in matching : helper'.found.value = stored[k]
              /\ ~helper'.found.has_value => helper'.found = Nullopt
              /\ helper'.response = helper.response]_vars

\* C23: a lookup in another letter case than the stored key
C23_Witness ==
    /\ helper.call = "get_header"
    /\ helper.name = << "a", "b" >>
    /\ DOMAIN helper.response.headers = { << "A", "b" >>, << "C" >> }
    /\ helper.found = [has_value |-> TRUE, value |-> << "2" >>]
    /\ helper.response.headers[<< "C" >>] = << "1" >>

\* C24: is_success() is true exactly for 200..299, is_client_error() exactly
\* for 400..499, is_server_error() exactly for 500..599, and for every
\* integer status code at most one of the three is true.
C24_ClassesExactAndExclusive ==
    helper.call = "classify"
    => /\ "is_success" \in helper.classes
          <=> helper.response.status_code \in 200..299
       /\ "is_client_error" \in helper.classes
          <=> helper.response.status_code \in 400..499
       /\ "is_server_error" \in helper.classes
          <=> helper.response.status_code \in 500..599
       /\ Cardinality(helper.classes) <= 1

\* C24: the last code that is a success
C24_Witness ==
    /\ helper.call = "classify"
    /\ helper.response.status_code = 299
    /\ helper.classes = {"is_success"}

\* C25 as stated: for every status code from 100 to 999 at least one of
\* is_success(), is_client_error(), is_server_error() is true.
C25_SomeClassOverThreeDigits ==
    (helper.call = "classify" /\ helper.response.status_code \in 100..999)
    => helper.classes # {}

\* C25: for a status code from 100 to 999, at least one of is_success(),
\* is_client_error(), is_server_error() is true exactly when the code is in
\* 200..299 or 400..599; for 100..199, 300..399 and 600..999 none is.
C25_SomeClassExactlyFor2xx4xx5xx ==
    (helper.call = "classify" /\ helper.response.status_code \in 100..999)
    => (helper.classes # {}
        <=> helper.response.status_code \in (200..299) \cup (400..599))

\* C25: a redirect code is in none of the three classes
C25_Witness ==
    /\ helper.call = "classify"
    /\ helper.response.status_code = 301
    /\ helper.classes = {}

\* The wrappers of both clients: what request() is to be called with
WrapperTable ==
    { [client |-> "AsioHttpClient", name |-> "get", at |-> "get",
       method |-> "GET", has_body |-> FALSE],
      [client |-> "AsioHttpClient", name |-> "del", at |-> "del",
       method |-> "DELETE", has_body |-> FALSE],
      [client |-> "AsioHttpClient", name |-> "head", at |-> "head",
       method |-> "HEAD", has_body |-> FALSE],
      [client |-> "AsioHttpClient", name |-> "post", at |-> "post",
       method |-> "POST", has_body |-> TRUE],
      [client |-> "AsioHttpClient", name |-> "put", at |-> "put",
       method |-> "PUT", has_body |-> TRUE],
      [client |-> "AsioHttpClient", name |-> "patch", at |-> "patch",
       method |-> "PATCH", has_body |-> TRUE],
      [client |-> "CurlHttpClient", name |-> "get", at |-> "curl_get",
       method |-> "GET", has_body |-> FALSE],
      [client |-> "CurlHttpClient", name |-> "del", at |-> "curl_del",
       method |-> "DELETE", has_body |-> FALSE],
      [client |-> "CurlHttpClient", name |-> "head", at |-> "curl_head",
       method |-> "HEAD", has_body |-> FALSE],
      [client |-> "CurlHttpClient", name |-> "post", at |-> "curl_post",
       method |-> "POST", has_body |-> TRUE],
      [client |-> "CurlHttpClient", name |-> "put", at |-> "curl_put",
       method |-> "PUT", has_body |-> TRUE],
      [client |-> "CurlHttpClient", name |-> "patch", at |-> "curl_patch",
       method |-> "PATCH", has_body |-> TRUE] }

\* C26: the step a wrapper takes is the entry of request() of its client
\* with the method fixed (get, del, head: GET, DELETE, HEAD and an empty
\* body; post, put, patch: POST, PUT, PATCH and the given body) and with
\* url, headers and config as the wrapper was given them; from there on the
\* call is the call of request(), and so is its result or error.
C26_WrappersCallRequest ==
    [][\A w \in WrapperTable :
          (pc = w.at /\ pc' # pc)
          => /\ pc' = (IF w.client = "AsioHttpClient" THEN "request"
                       ELSE "curl_request")
             /\ method' = w.method
             /\ body' = (IF w.has_body THEN body ELSE <<>>)
             /\ url' = url
             /\ headers' = headers
             /\ config' = config
             /\ attempts' = 0
             /\ outcome' = NoOutcome]_vars

\* C26: patch of the libcurl client has handed its body to request()
C26_Witness ==
    /\ pc = "curl_perform"
    /\ method = "PATCH"
    /\ body = << "a", "b" >>
    /\ headers = AcceptHeader

\* C27: in every https attempt the context the handshake runs under
\* verifies the peer if and only if this call's config.verify_ssl is true,
\* whatever earlier calls on the client passed; a certificate that fails
\* the verification ends the call with SslException, with verify_ssl true
\* and without a byte of the request written.
C27_VerifiedIffVerifySsl ==
    /\ pc = "handshake"
       => ssl_context.verify_mode
          = (IF config.verify_ssl THEN "verify_peer" ELSE "verify_none")
    /\ ec = "certificate_verify_failed"
       => /\ config.verify_ssl
          /\ pc = "done"
          /\ outcome.kind = "SslException"
          /\ sent = <<>>

\* C27: the second call of the client, with verify_ssl true, after a call
\* with verify_ssl false: the peer's certificate was refused
C27_Witness ==
    /\ calls = 2
    /\ config.verify_ssl
    /\ ec = "certificate_verify_failed"
    /\ outcome.kind = "SslException"

\* C28: an https attempt with verify_ssl true and a ca_bundle_path that
\* cannot be loaded ends with SslException before the resolve (a failing
\* resolve is never reported), the connect and the write; with verify_ssl
\* false the step that updates the context adds no trust anchor and raises
\* no SslException for the bundle.
C28_BundleLoadedOnlyWhenVerifying ==
    [][(pc = "request" /\ pc' # pc)
       => /\ (IsHttps /\ config.verify_ssl
              /\ config.ca_bundle_path \notin {"", "ca.pem"})
             => /\ pc' = "done"
                /\ outcome'.kind = "SslException"
                /\ outcome'.detail = "ca_bundle"
                /\ sent' = <<>>
                /\ socket' = "closed"
                /\ timer' = "idle"
          /\ ~config.verify_ssl
             => /\ ssl_context'.anchors = ssl_context.anchors
                /\ outcome'.kind # "SslException"]_vars

\* C28: the bundle "missing.pem" was asked for
C28_Witness ==
    /\ pc = "done"
    /\ url = UrlHttps
    /\ config.verify_ssl
    /\ config.ca_bundle_path = "missing.pem"
    /\ outcome.kind = "SslException"
    /\ outcome.detail = "ca_bundle"

\* C29: on a plain and on a TLS connection alike, a resolve that fails, a
\* connect that fails while the deadline has not passed, and a write that
\* fails each end the call with NetworkException, and nothing of a later
\* phase has happened: no connection after a failed resolve; nothing written
\* after a failed connect; nothing read after a failed write.
C29_TransportFailureRaisesNetworkError ==
    [][/\ (pc = "request" /\ ec' = "host_not_found")
          => /\ pc' = "done"
             /\ outcome'.kind = "NetworkException"
             /\ socket' = "closed" /\ timer' = "idle"
             /\ sent' = <<>> /\ received' = <<>>
       /\ (pc = "connect" /\ timer = "armed" /\ pc' # pc /\ ec' = "error")
          => /\ pc' = "done"
             /\ outcome'.kind = "NetworkException"
             /\ sent' = <<>> /\ received' = <<>>
       /\ (pc = "write" /\ pc' # pc /\ ec' = "error")
          => /\ pc' = "done"
             /\ outcome'.kind = "NetworkException"
             /\ received' = <<>> /\ ~parsed']_vars

\* C29: the write on a TLS connection failed
C29_Witness ==
    /\ pc = "done"
    /\ url = UrlHttps
    /\ outcome.kind = "NetworkException"
    /\ outcome.detail = "write"
    /\ ec = "error"
    /\ received = <<>>

\* C30: a call that passes no config runs, from its entry to its end and
\* through every hop, with timeout 30000 ms, connect_timeout 10000 ms,
\* follow_redirects true, max_redirects 5, max_response_size 0, verify_ssl
\* true and an empty ca_bundle_path: its handshakes verify the peer, no CA
\* bundle is loaded and no response is refused for its size.
C30_DefaultConfigUsed ==
    /\ pc # "idle"
       => /\ config.timeout = 30000
          /\ config.connect_timeout = 10000
          /\ config.follow_redirects = TRUE
          /\ config.max_redirects = 5
          /\ config.max_response_size = 0
          /\ config.verify_ssl = TRUE
          /\ config.ca_bundle_path = ""
          /\ DOMAIN config = { "timeout", "connect_timeout",
                               "follow_redirects", "max_redirects",
                               "max_response_size", "verify_ssl",
                               "ca_bundle_path" }
    /\ pc = "handshake" => ssl_context.verify_mode = "verify_peer"
    /\ ssl_context.anchors = {}
    /\ ~(outcome.kind = "ParseException" /\ outcome.detail = "size")

\* C30: the call followed a redirect and came back with a Response
C30_Witness ==
    /\ pc = "done"
    /\ attempts = 2
    /\ outcome.kind = "Response"
    /\ config.max_redirects = 5
    /\ config.timeout = 30000

\* The blocking operations of an attempt
PendingOps == { "connect", "handshake", "write", "read_until", "read_body" }

C32_AnchorsOfThisCallOnly ==
    (pc = "handshake" /\ config.verify_ssl)
    => ssl_context.anchors
       = (IF config.ca_bundle_path = "" THEN {} ELSE {config.ca_bundle_path})

\* C33: whenever no attempt is in progress (request() has returned or
\* raised, or is about to start the next hop) the socket of the last attempt
\* is closed and its timer is disarmed, whatever way the attempt was left.
C33_SocketClosedTimerDisarmedOnExit ==
    pc \in {"idle", "request", "done"} => (socket = "closed" /\ timer = "idle")

\* C33: the call was left by the exception for an oversized response, raised
\* in the body loop while the socket was open and the timer armed
C33_Witness ==
    /\ pc = "done"
    /\ outcome.kind = "ParseException"
    /\ outcome.detail = "size"
    /\ received # <<>>
    /\ socket = "closed"
    /\ timer = "idle"

\* C34: whenever request() has got a ParsedUrl from parse_url and goes on
\* to connect, the numeric value of its port is in 0..65535; a URL with a
\* port above that never gets there (it is refused with UrlException).
C34_PortIsSixteenBit ==
    pc = "connect"
    => LET value == DigitsValue(parse_url(url).port, 0)
       IN  /\ value >= 0
           /\ value <= 65535

\* C35: a call has at most one connection, that of the attempt in progress:
\* before an attempt connects (at the entry of request(), for the first
\* attempt and for every hop) and after the call has ended no socket is
\* open; a socket is opened by the connect of the attempt only, and nothing
\* has been sent or received on it before.
C35_OneFreshConnectionPerAttempt ==
    [][/\ pc' \in {"idle", "request", "connect", "done"} => socket' = "closed"
       /\ socket' = "open"
          => /\ pc \in {"connect", "handshake", "write", "read_until",
                        "read_body"}
             /\ (socket = "closed"
                 => pc = "connect" /\ sent' = <<>> /\ received' = <<>>)]_vars

\* C35: the second attempt of a call has its connection open and has not
\* yet written on it
C35_Witness ==
    /\ attempts = 2
    /\ pc = "write"
    /\ socket = "open"
    /\ sent = <<>>

\* The bytes of a serialized request after its first blank line
AfterBlankLine(data) == SubstrFrom(data, Find(data, Delimiter) + 4)

\* C36: every request built by request() is self-framed: when bytes follow
\* the blank line, the header block has a Content-Length header whose value
\* is the number of those bytes, whatever the method.
C36_RequestSelfFramed ==
    Built =>
      \A b \in BodyTable :
        (AfterBlankLine(request_data) = b.bytes /\ b.bytes # <<>>)
        => \E i \in ContentLengthLines(request_data) :
              StripCR(HeadLines(request_data)[i])
              = ContentLengthPrefix \o b.length

\* C37: with verify_ssl true, an https attempt whose peer presents a
\* certificate issued for another host does not get past the handshake:
\* nothing is written and the call does not return a Response.
C37_OtherHostCertificateRefused ==
    (IsHttps /\ config.verify_ssl)
    => /\ pc \notin {"write", "read_until", "read_body"}
       /\ sent = <<>>
       /\ outcome.kind # "Response"

\* C38: in a call of CurlHttpClient with a nonzero max_response_size the
\* collected body never holds more than max_response_size bytes, and a call
\* that ended because a piece of the body would have gone beyond the limit
\* (the write callback refused it) ended with ParseException, as in
\* AsioHttpClient.
C38_CurlSizeLimitRaisesParseError ==
    /\ config.max_response_size > 0
       => Len(response_data) <= config.max_response_size
    /\ (pc = "done" /\ outcome.detail = "CURLE_WRITE_ERROR")
       => outcome.kind = "ParseException"

\* The alive objects whose curl_handle_ is the easy handle h
Owners(h) ==
    { k \in ClientIds : /\ curl_objects.object[k].state = "alive"
                        /\ curl_objects.object[k].curl_handle_ = h }

\* Every easy handle curl_easy_init returned is either held by exactly one
\* alive client and not cleaned up, or held by none and cleaned up once;
\* a handle not yet made is neither held nor cleaned up
HandlesOwnedOnceCleanedOnce ==
    \A h \in ClientIds :
        IF h <= curl_objects.inits
        THEN \/ Cardinality(Owners(h)) = 1 /\ curl_objects.cleanups[h] = 0
             \/ Owners(h) = {} /\ curl_objects.cleanups[h] = 1
        ELSE Owners(h) = {} /\ curl_objects.cleanups[h] = 0

\* C39 as stated: over construction, move construction, move assignment
\* and destruction every easy handle is cleaned up exactly once and held
\* by at most one client at a time, and every request() on a moved-from
\* client ends with NetworkException without the null handle being used.
C39_MovedFromAlwaysNetworkError ==
    /\ HandlesOwnedOnceCleanedOnce
    /\ pc = "curl_perform" => CurlHandleOfThis # NullHandle
    /\ (pc = "done" /\ CurlHandleOfThis = NullHandle)
       => outcome.kind = "NetworkException"

\* C39, amended: over construction, move construction, move assignment and
\* destruction every easy handle is cleaned up exactly once and held by at
\* most one client at a time; request() on a moved-from client never
\* reaches curl_easy_perform: it ends with UrlException when validate_url
\* refuses the URL (that test comes first) and with NetworkException
\* otherwise.
C39_HandleOwnedOnceNullNeverUsed ==
    /\ HandlesOwnedOnceCleanedOnce
    /\ pc = "curl_perform" => CurlHandleOfThis # NullHandle
    /\ (pc = "done" /\ CurlHandleOfThis = NullHandle)
       => IF url = UrlTen
          THEN outcome.kind = "NetworkException" /\ outcome.detail = "handle"
          ELSE outcome.kind = "UrlException"

\* C39: the first client was moved into a second one, that one assigned to
\* a third (whose own handle was cleaned up), and request() was called on
\* the moved-from second client
C39_Witness ==
    /\ pc = "done"
    /\ curl_objects.this = 2
    /\ CurlHandleOfThis = NullHandle
    /\ curl_objects.object[3].curl_handle_ = 1
    /\ curl_objects.cleanups[2] = 1
    /\ outcome.kind = "NetworkException"
====
